---- MODULE Spec2Model ----
(***************************************************************************)
(* The intent graph (core/graph.py), the rewriting optimizer               *)
(* (core/optimizer.py) and the lowering of a graph to a plan               *)
(* (solvers/kernel.py, solvers/strategies.py) of the ioc repository.       *)
(*                                                                         *)
(* A graph is the dict `nodes` (here: the function `nodes` together with   *)
(* `order`, the insertion order a Python dict iterates in) and the list    *)
(* `outputs`.  User callables are drawn from a small library of concrete   *)
(* functions; a closure built by a fusion pass is the chain of the library *)
(* functions it calls, in call order.                                      *)
(* `applied` is optimizations_applied of the GraphOptimizer that the last  *)
(* Graph.optimize call made (empty after a builder call).                  *)
(***************************************************************************)
EXTENDS Integers, Sequences, FiniteSets, TLC

VARIABLES nodes, order, outputs, created, last, err, applied, lib,
          profiler, file, plan, threads, solver

vars == <<nodes, order, outputs, created, last, err, applied, lib, profiler, file, plan,
          threads, solver>>

\* what a call on the graph leaves alone: the profiler of the process, the profile
\* file, the plan an earlier compile returned, the threads that are inside
\* record_execution and the SolverKernel the caller holds
kernel == <<profiler, file, plan, threads, solver>>

(***************************************************************************)
(* Bounds of the exploration.                                              *)
(***************************************************************************)
MaxNodes == 3        \* builder calls that create a node, general graphs
MaxOutputs == 2      \* calls of Graph.output
MaxLen == 2          \* length of the list a plan is invoked with
DeepNodes == 5       \* builder calls, library of one transform and one predicate
DeepOutputs == 1     \* calls of Graph.output on those graphs
ChainNodes == 5      \* builder calls, graphs of filters alone or of maps alone
BuilderNodes == 2    \* builder calls when unknown identifiers are passed
AssertNodes == 4     \* builder calls, graphs with assert_invariant nodes
ModeNodes == 3       \* builder calls, graphs compiled in the three modes
MaxRecords == 2      \* records of the profiler store
MaxSamples == 2      \* measurements folded into one record
TotalNodes == 4      \* builder calls, library with a predicate that divides by its argument
DanglingNodes == 3   \* builder calls when unknown identifiers are passed and passes run
FrozenNodes == 4     \* builder calls, graphs that change after a plan was compiled
StoreRecords == 2    \* records of a store that is saved and loaded
CostRecords == 2     \* records of a store that is asked for cost estimates
MaxSize == 1100      \* largest size that is bucketed
IdNodes == 3         \* builder calls, graphs whose identifiers are drawn in any order
ProbeNodes == 4      \* builder calls, library of the callables the probes tell apart
KernelNodes == 2     \* builder calls, graphs compiled repeatedly by one SolverKernel
KernelSamples == 1   \* measurements folded into one record of that kernel's profiler
ThreadCount == 2     \* threads that call record_execution
ThreadCalls == 2     \* calls of record_execution the threads make for one key

(***************************************************************************)
(* Values.  A plan is invoked with a list of integers.  The probe strings  *)
(* of _is_predicate_independent are the elements >= 1000 (an arithmetic    *)
(* library function raises TypeError on a str).  The eight probe strings   *)
(* are 1001..1008; s + 1000 is s.upper(), s + 2000 is s * 2, followed      *)
(* through one upper() and one doubling.                                   *)
(***************************************************************************)
IsStr(x) == x >= 1000

\* len(s) of a string: "a", "ab", "abc", "hello", "world", "test", "x", ""
StrLen(s) ==
    <<1, 2, 3, 5, 5, 4, 1, 0>>[s % 1000] * (IF (s - 1000) \div 2000 = 0 THEN 1 ELSE 2)

DataVals == {-5, 9, 200}

RECURSIVE SeqsUpTo(_, _)
SeqsUpTo(S, n) ==
    IF n = 0 THEN {<<>>}
    ELSE LET shorter == SeqsUpTo(S, n - 1)
         IN  shorter \cup {Append(s, x) : s \in {t \in shorter : Len(t) = n - 1}, x \in S}

PlanInputs == SeqsUpTo(DataVals, MaxLen)

(***************************************************************************)
(* The user callables.  Each returns a value or raises.                    *)
(*   inc    = lambda x: x + 1                                              *)
(*   clamp  = lambda x: min(x, 200)                                        *)
(*   nonneg = lambda x: x >= 0                                             *)
(*   sqrt3  = lambda x: math.sqrt(x) > 3     (ValueError when x < 0)       *)
(*   small  = lambda x: 10 / x > 1           (ZeroDivisionError when x = 0) *)
(*   double = lambda x: x * 2                (a str is repeated)           *)
(*   upper  = lambda x: x.upper()            (AttributeError on an int)    *)
(*   abs    = abs                                                          *)
(*   gt10   = lambda x: x > 10                                             *)
(*   len3   = lambda x: len(x) > 3           (TypeError on an int)         *)
(***************************************************************************)
Transforms == {"inc", "clamp"}
Predicates == {"nonneg", "sqrt3"}

Ok(v) == [ok |-> TRUE, v |-> v, e |-> ""]
Raise(e) == [ok |-> FALSE, v |-> 0, e |-> e]

TApply(t, x) ==
    IF t = "upper"
    THEN IF ~IsStr(x) THEN Raise("AttributeError")
         ELSE Ok(IF ((x - 1000) \div 1000) % 2 = 0 THEN x + 1000 ELSE x)
    ELSE IF t = "double"
    THEN IF ~IsStr(x) THEN Ok(2 * x)
         ELSE Ok(IF (x - 1000) \div 2000 = 0 THEN x + 2000 ELSE x)
    ELSE IF IsStr(x) THEN Raise("TypeError")
    ELSE IF t = "abs" THEN Ok(IF x < 0 THEN 0 - x ELSE x)
    ELSE IF t = "inc" THEN Ok(x + 1)
    ELSE Ok(IF x < 200 THEN x ELSE 200)

\* the predicate's verdict as 1 (truthy) or 0 (falsy)
PApply(p, x) ==
    IF p = "len3"
    THEN IF IsStr(x) THEN Ok(IF StrLen(x) > 3 THEN 1 ELSE 0) ELSE Raise("TypeError")
    ELSE IF IsStr(x) THEN Raise("TypeError")
    ELSE IF p = "gt10" THEN Ok(IF x > 10 THEN 1 ELSE 0)
    ELSE IF p = "nonneg" THEN Ok(IF x >= 0 THEN 1 ELSE 0)
    ELSE IF p = "small"
    THEN IF x = 0 THEN Raise("ZeroDivisionError") ELSE Ok(IF 0 < x /\ x < 10 THEN 1 ELSE 0)
    ELSE IF x < 0 THEN Raise("ValueError")
    ELSE Ok(IF x > 9 THEN 1 ELSE 0)

RECURSIVE TChainFrom(_, _, _)
\* r is what ts[i] returned: the next transform gets its value, an exception ends the chain
TChainNext(ts, i, r) == IF r.ok THEN TChainFrom(ts, i + 1, r.v) ELSE r

TChainFrom(ts, i, x) ==
    IF i > Len(ts) THEN Ok(x) ELSE TChainNext(ts, i, TApply(ts[i], x))

\* composed(x) = f2(f1(x)): the chain is applied left to right
CallTransform(ts, x) == TChainFrom(ts, 1, x)

RECURSIVE PChainFrom(_, _, _)
\* r is what ps[i] returned: `and` stops at an exception, a falsy verdict or the last predicate
PChainNext(ps, i, x, r) ==
    IF ~r.ok \/ r.v = 0 \/ i = Len(ps) THEN r ELSE PChainFrom(ps, i + 1, x)

PChainFrom(ps, i, x) == PChainNext(ps, i, x, PApply(ps[i], x))

\* combined(x) = p1(x) and p2(x): left to right, stopping at the first falsy verdict
CallPredicate(ps, x) == PChainFrom(ps, 1, x)

(***************************************************************************)
(* IntentNode and Graph.                                                   *)
(*   kind    intent_type                                                   *)
(*   inputs  the list of input identifiers                                 *)
(*   fn      the callable parameter (predicate, transform, operation, on), *)
(*           <<>> when the node has none                                   *)
(*   val     the literal parameter (a Constant's value)                    *)
(*   name    an Input's name                                               *)
(*   otype   output_type                                                   *)
(***************************************************************************)
Node(kind, inputs, fn, val, name, otype) ==
    [kind |-> kind, inputs |-> inputs, fn |-> fn, val |-> val, name |-> name, otype |-> otype]

ConstVals == {<<9, 200>>}

\* the graph of the state, handed to a fresh GraphOptimizer
G == [nodes |-> nodes, order |-> order, outputs |-> outputs, err |-> "none", applied |-> <<>>]

Ids(g) == DOMAIN g.nodes

\* _generate_id: the next draw of uuid4().hex[:8]; the draws are fixed by lib.ids
NewId == lib.ids[created + 1]

CanCreate == created < lib.maxNodes

\* identifiers a caller may pass: those of the graph and, when lib.unknown, one that
\* names no node
IdArgs == DOMAIN nodes \cup (IF lib.unknown THEN {0} ELSE {})

\* _add_node
AddNode(n) ==
    /\ nodes' = nodes @@ (NewId :> n)
    /\ order' = Append(order, NewId)
    /\ created' = created + 1
    /\ last' = "build"
    /\ err' = "none"
    /\ applied' = <<>>
    /\ UNCHANGED <<outputs, lib, kernel>>

\* a builder call that raised before _add_node
Fails(e) ==
    /\ err' = e
    /\ last' = "build"
    /\ applied' = <<>>
    /\ UNCHANGED <<nodes, order, outputs, created, lib, kernel>>

Input ==
    /\ CanCreate
    /\ AddNode(Node("input", <<>>, <<>>, <<>>, "data", "Any"))

Constant(v) ==
    /\ CanCreate
    /\ AddNode(Node("constant", <<>>, <<>>, v, "", "Any"))

Filter(i, p) ==
    /\ CanCreate
    /\ IF i \notin DOMAIN nodes THEN Fails("KeyError")
       ELSE AddNode(Node("filter", <<i>>, <<p>>, <<>>, "", nodes[i].otype))

Map(i, t) ==
    /\ CanCreate
    /\ AddNode(Node("map", <<i>>, <<t>>, <<>>, "", "List[Any]"))

\* reduce(input, operator.add, initial): val is <<>> when initial is None
Reduce(i, initial) ==
    /\ CanCreate
    /\ AddNode(Node("reduce", <<i>>, <<"add">>, initial, "", "Any"))

Sort(i) ==
    /\ CanCreate
    /\ IF i \notin DOMAIN nodes THEN Fails("KeyError")
       ELSE AddNode(Node("sort", <<i>>, <<>>, <<>>, "", nodes[i].otype))

GroupBy(i, t) ==
    /\ CanCreate
    /\ AddNode(Node("group_by", <<i>>, <<t>>, <<>>, "", "Any"))

Join(l, r) ==
    /\ CanCreate
    /\ AddNode(Node("join", <<l, r>>, <<"eq">>, <<>>, "", "List[Any]"))

Flatten(i) ==
    /\ CanCreate
    /\ AddNode(Node("flatten", <<i>>, <<>>, <<>>, "", "List[Any]"))

Distinct(i) ==
    /\ CanCreate
    /\ IF i \notin DOMAIN nodes THEN Fails("KeyError")
       ELSE AddNode(Node("distinct", <<i>>, <<>>, <<>>, "", nodes[i].otype))

AssertInvariant(i, p) ==
    /\ CanCreate
    /\ IF i \notin DOMAIN nodes THEN Fails("KeyError")
       ELSE AddNode(Node("assert", <<i>>, <<p>>, <<>>, "", nodes[i].otype))

Output(n) ==
    /\ Len(outputs) < lib.maxOutputs
    /\ IF n \notin DOMAIN nodes THEN Fails("ValueError")
       ELSE /\ outputs' = Append(outputs, n)
            /\ last' = "build"
            /\ err' = "none"
            /\ applied' = <<>>
            /\ UNCHANGED <<nodes, order, created, lib, kernel>>

(***************************************************************************)
(* Graph.get_execution_order: depth-first from the outputs, a node after   *)
(* its inputs.  ok is FALSE when self.nodes[node_id] raised KeyError.      *)
(***************************************************************************)
RECURSIVE visit(_, _, _)
RECURSIVE VisitEach(_, _, _, _)
\* visit with order.append(node_id) before the walk over node.inputs
VisitAppendingFirst(g, n, st) ==
    IF ~st.ok \/ n \in st.visited THEN st
    ELSE IF n \notin DOMAIN g.nodes THEN [st EXCEPT !.ok = FALSE]
    ELSE VisitEach(g, g.nodes[n].inputs, 1,
                   [st EXCEPT !.visited = @ \cup {n}, !.order = Append(@, n)])

visit(g, n, st) ==
    IF ~st.ok \/ n \in st.visited THEN st
    ELSE IF n \notin DOMAIN g.nodes THEN [st EXCEPT !.ok = FALSE]
    ELSE LET st1 == VisitEach(g, g.nodes[n].inputs, 1, [st EXCEPT !.visited = @ \cup {n}])
         IN  IF st1.ok THEN [st1 EXCEPT !.order = Append(@, n)] ELSE st1

VisitEach(g, ins, i, st) ==
    IF i > Len(ins) THEN st ELSE VisitEach(g, ins, i + 1, visit(g, ins[i], st))

GetExecutionOrder(g) ==
    VisitEach(g, g.outputs, 1, [visited |-> {}, order |-> <<>>, ok |-> TRUE])

(***************************************************************************)
(* The plan: SolverKernel._generate_code emits one action per node of the  *)
(* execution order and a return of the outputs; the actions are those of   *)
(* NaiveStrategy / OptimizedStrategy.generate_code, which agree on the     *)
(* kinds modelled here.  A node's value is a list or a tuple of integers.  *)
(***************************************************************************)
OkSeq(k, v) == [ok |-> TRUE, k |-> k, v |-> v, e |-> ""]
RaiseSeq(e) == [ok |-> FALSE, k |-> "", v |-> <<>>, e |-> e]

RECURSIVE FilterFrom(_, _, _, _)
FilterFrom(ps, s, i, acc) ==
    IF i > Len(s) THEN OkSeq("list", acc)
    ELSE LET r == CallPredicate(ps, s[i])
         IN  IF ~r.ok THEN RaiseSeq(r.e)
             ELSE FilterFrom(ps, s, i + 1, IF r.v = 1 THEN Append(acc, s[i]) ELSE acc)

RECURSIVE MapFrom(_, _, _, _)
MapFrom(ts, s, i, acc) ==
    IF i > Len(s) THEN OkSeq("list", acc)
    ELSE LET r == CallTransform(ts, s[i])
         IN  IF ~r.ok THEN RaiseSeq(r.e)
             ELSE MapFrom(ts, s, i + 1, Append(acc, r.v))

\* the action emitted for node nd, run with the results env of the earlier actions;
\* the graphs a plan is run on here hold inputs, constants, filters and maps only
GenerateCode(nd, env, xs) ==
    CASE nd.kind = "input" -> OkSeq("list", xs)
      [] nd.kind = "constant" -> OkSeq("tuple", nd.val)
      [] nd.kind = "filter" -> FilterFrom(nd.fn, env[nd.inputs[1]].v, 1, <<>>)
      [] nd.kind = "map" -> MapFrom(nd.fn, env[nd.inputs[1]].v, 1, <<>>)
      [] OTHER -> RaiseSeq("NotImplementedError")

RECURSIVE RunFrom(_, _, _, _, _)
RunFrom(g, ord, i, env, xs) ==
    IF i > Len(ord) THEN [ok |-> TRUE, env |-> env, e |-> ""]
    ELSE LET r == GenerateCode(g.nodes[ord[i]], env, xs)
         IN  IF r.ok
             THEN RunFrom(g, ord, i + 1, env @@ (ord[i] :> [k |-> r.k, v |-> r.v]), xs)
             ELSE [ok |-> FALSE, env |-> env, e |-> r.e]

\* kinds some strategy of the kernel can handle (assert is in neither list)
Handled ==
    {"filter", "map", "reduce", "input", "output", "constant",
     "sort", "group_by", "join", "flatten", "distinct"}

InputNodes(g) == {n \in DOMAIN g.nodes : g.nodes[n].kind = "input"}

\* SolverKernel.compile succeeds: the order exists, every node of it has a strategy,
\* the body is not empty and no parameter name occurs twice in the signature
Compiles(g) ==
    LET eo == GetExecutionOrder(g)
    IN  /\ eo.ok
        /\ Len(g.outputs) > 0
        /\ \A i \in 1..Len(eo.order) : g.nodes[eo.order[i]].kind \in Handled
        /\ \A a, b \in InputNodes(g) : a # b => g.nodes[a].name # g.nodes[b].name

\* what compile(auto_optimize=False) followed by fn(data=xs) does
PlanResult(g, xs) ==
    IF ~Compiles(g)
    THEN [st |-> "compile_error", e |-> "", single |-> FALSE, outs |-> <<>>]
    ELSE LET run == RunFrom(g, GetExecutionOrder(g).order, 1, <<>>, xs)
         IN  IF ~run.ok
             THEN [st |-> "raise", e |-> run.e, single |-> FALSE, outs |-> <<>>]
             ELSE [st |-> "ok", e |-> "", single |-> Len(g.outputs) = 1,
                   outs |-> [i \in 1..Len(g.outputs) |-> run.env[g.outputs[i]]]]

(***************************************************************************)
(* GraphOptimizer.  A pass takes the graph and returns the graph it leaves *)
(* behind; err names the exception it raised, "none" when it returned.     *)
(***************************************************************************)
\* an entry of optimizations_applied: the pass and the count its message reports
Applied(pass, n) == [pass |-> pass, n |-> n]

\* mark_reachable without the walk over node.inputs
MarkWithoutInputs(g, n, st) ==
    IF n \notin DOMAIN g.nodes THEN [st EXCEPT !.ok = FALSE]
    ELSE [st EXCEPT !.reachable = @ \cup {n}]

RECURSIVE mark_reachable(_, _, _)
RECURSIVE MarkEach(_, _, _, _)
mark_reachable(g, n, st) ==
    IF ~st.ok \/ n \in st.reachable THEN st
    ELSE IF n \notin DOMAIN g.nodes THEN [st EXCEPT !.ok = FALSE]
    ELSE MarkEach(g, g.nodes[n].inputs, 1, [st EXCEPT !.reachable = @ \cup {n}])

MarkEach(g, ins, i, st) ==
    IF i > Len(ins) THEN st ELSE MarkEach(g, ins, i + 1, mark_reachable(g, ins[i], st))

Keep(seq, S) == SelectSeq(seq, LAMBDA n : n \in S)

DeadCodeElimination(g) ==
    LET st == MarkEach(g, g.outputs, 1, [reachable |-> {}, ok |-> TRUE])
    IN  IF ~st.ok THEN [g EXCEPT !.err = "KeyError"]
        ELSE LET dead_nodes == DOMAIN g.nodes \ st.reachable
             IN  IF dead_nodes = {} THEN g
                 ELSE [g EXCEPT !.nodes = [n \in st.reachable |-> g.nodes[n]],
                                !.order = Keep(g.order, st.reachable),
                                !.applied = Append(@, Applied("dead_code_elimination",
                                                              Cardinality(dead_nodes)))]

\* callables told apart by nothing
CallableIdAllEqual(g, n) == [name |-> "", at |-> 0]

\* id(value) of a node's callable parameter: a library function is one object, a
\* closure made by a fusion is an object of its own, held by the node it was made for
CallableId(g, n) ==
    LET fn == g.nodes[n].fn
    IN  IF Len(fn) = 0 THEN [name |-> "", at |-> 0]
        ELSE IF Len(fn) = 1 THEN [name |-> fn[1], at |-> 0]
        ELSE [name |-> "closure", at |-> n]

get_node_signature(g, n) ==
    [kind |-> g.nodes[n].kind, inputs |-> g.nodes[n].inputs,
     callable |-> CallableId(g, n), val |-> g.nodes[n].val, name |-> g.nodes[n].name]

\* _params_identical(params of a, params of b)
ParamsIdentical(g, a, b) ==
    /\ Len(g.nodes[a].fn) = 0 <=> Len(g.nodes[b].fn) = 0
    /\ CallableId(g, a) = CallableId(g, b)
    /\ g.nodes[a].val = g.nodes[b].val
    /\ g.nodes[a].name = g.nodes[b].name

\* node_ids[0] of the signature group of n: the first node, in dict order, with
\* the signature of n
FirstOfGroup(g, n) ==
    LET i == CHOOSE i \in 1..Len(g.order) :
                /\ get_node_signature(g, g.order[i]) = get_node_signature(g, n)
                /\ \A j \in 1..(i - 1) :
                      get_node_signature(g, g.order[j]) # get_node_signature(g, n)
    IN  g.order[i]

\* node_to_canonical
NodeToCanonical(g) ==
    LET dup(n) ==
            LET c == FirstOfGroup(g, n)
            IN  /\ c # n
                /\ IF g.nodes[c].kind = "constant"
                   THEN g.nodes[c].val = g.nodes[n].val
                   ELSE ParamsIdentical(g, c, n)
    IN  [n \in {m \in DOMAIN g.nodes : dup(m)} |-> FirstOfGroup(g, n)]

Redirect(inputs, n2c) ==
    [i \in 1..Len(inputs) |-> IF inputs[i] \in DOMAIN n2c THEN n2c[inputs[i]] ELSE inputs[i]]

InSeq(x, seq) == \E i \in 1..Len(seq) : seq[i] = x

RECURSIVE NewOutputs(_, _, _, _)
NewOutputs(outs, i, n2c, acc) ==
    IF i > Len(outs) THEN acc
    ELSE IF outs[i] \in DOMAIN n2c
         THEN NewOutputs(outs, i + 1, n2c,
                         IF InSeq(n2c[outs[i]], acc) THEN acc ELSE Append(acc, n2c[outs[i]]))
         ELSE NewOutputs(outs, i + 1, n2c, Append(acc, outs[i]))

CommonSubexpressionElimination(g) ==
    LET n2c == NodeToCanonical(g)
    IN  IF DOMAIN n2c = {} THEN g
        ELSE DeadCodeElimination(
                 [g EXCEPT !.nodes = [n \in DOMAIN g.nodes |->
                                         [g.nodes[n] EXCEPT !.inputs = Redirect(@, n2c)]],
                           !.outputs = NewOutputs(g.outputs, 1, n2c, <<>>),
                           !.applied = Append(@, Applied("common_subexpression_elimination",
                                                         Cardinality(DOMAIN n2c)))])

\* make_combined(p1, p2): combined(x) = p1(x) and p2(x)
make_combined(p1, p2) == p1 \o p2

RECURSIVE FilterFusionFrom(_, _, _, _, _)
FilterFusionFrom(g, ids, i, fused, changes) ==
    IF i > Len(ids) THEN [g |-> g, changes |-> changes]
    ELSE LET n == ids[i]
             node == g.nodes[n]
             skip == FilterFusionFrom(g, ids, i + 1, fused, changes)
         IN  IF node.kind # "filter" THEN skip
             ELSE IF Len(node.inputs) = 0 \/ n \in fused THEN skip
             ELSE IF node.inputs[1] \notin DOMAIN g.nodes THEN skip
             ELSE IF g.nodes[node.inputs[1]].kind # "filter" \/ node.inputs[1] \in fused
                  THEN skip
             ELSE LET inner == g.nodes[node.inputs[1]]
                      g1 == [g EXCEPT !.nodes[n].fn = make_combined(inner.fn, node.fn),
                                      !.nodes[n].inputs = inner.inputs]
                  IN  FilterFusionFrom(g1, ids, i + 1, fused \cup {node.inputs[1]}, changes + 1)

FilterFusion(g) ==
    LET r == FilterFusionFrom(g, g.order, 1, {}, 0)
    IN  IF r.changes > 0
        THEN DeadCodeElimination([r.g EXCEPT !.applied = Append(@, Applied("filter_fusion", r.changes))])
        ELSE r.g

\* make_composed(f1, f2): composed(x) = f2(f1(x))
make_composed(f1, f2) == f1 \o f2

RECURSIVE MapFusionFrom(_, _, _, _, _)
MapFusionFrom(g, ids, i, fused, changes) ==
    IF i > Len(ids) THEN [g |-> g, changes |-> changes]
    ELSE LET n == ids[i]
             node == g.nodes[n]
             skip == MapFusionFrom(g, ids, i + 1, fused, changes)
         IN  IF node.kind # "map" THEN skip
             ELSE IF Len(node.inputs) = 0 \/ n \in fused THEN skip
             ELSE IF node.inputs[1] \notin DOMAIN g.nodes THEN skip
             ELSE IF g.nodes[node.inputs[1]].kind # "map" \/ node.inputs[1] \in fused
                  THEN skip
             ELSE LET inner == g.nodes[node.inputs[1]]
                      g1 == [g EXCEPT !.nodes[n].fn = make_composed(inner.fn, node.fn),
                                      !.nodes[n].inputs = inner.inputs]
                  IN  MapFusionFrom(g1, ids, i + 1, fused \cup {node.inputs[1]}, changes + 1)

MapFusion(g) ==
    LET r == MapFusionFrom(g, g.order, 1, {}, 0)
    IN  IF r.changes > 0
        THEN DeadCodeElimination([r.g EXCEPT !.applied = Append(@, Applied("map_fusion", r.changes))])
        ELSE r.g

\* test_cases of _is_predicate_independent; 1001..1008 stand for the eight strings
TestCases ==
    << <<1, 2, 3, 4, 5, 10, 20, 30, -1, -5, 0>>,
       <<1001, 1002, 1003, 1004, 1005, 1006, 1007, 1008>>,
       <<0, 1, -1, 100, -100, 42, 7, 13>> >>

\* the exception classes both except clauses name
Tolerated == {"TypeError", "AttributeError", "KeyError", "ValueError"}

\* "yes", "no", or the exception that escapes
RECURSIVE IndependentFrom(_, _, _)
IndependentFrom(transform, predicate, c) ==
    IF c > Len(TestCases) THEN "yes"
    ELSE LET next == IndependentFrom(transform, predicate, c + 1)
             mapped == MapFrom(transform, TestCases[c], 1, <<>>)
             result1 == FilterFrom(predicate, mapped.v, 1, <<>>)
             filtered == FilterFrom(predicate, TestCases[c], 1, <<>>)
             result2 == MapFrom(transform, filtered.v, 1, <<>>)
         IN  IF ~mapped.ok THEN (IF mapped.e \in Tolerated THEN next ELSE mapped.e)
             ELSE IF ~result1.ok THEN (IF result1.e \in Tolerated THEN next ELSE result1.e)
             ELSE IF ~filtered.ok THEN (IF filtered.e \in Tolerated THEN "no" ELSE filtered.e)
             ELSE IF ~result2.ok THEN (IF result2.e \in Tolerated THEN "no" ELSE result2.e)
             ELSE IF result1.v = result2.v THEN next
             ELSE "no"

\* every pair passes the test
AlwaysIndependent(transform, predicate) == "yes"

IsPredicateIndependent(transform, predicate) == IndependentFrom(transform, predicate, 1)

\* _count_consumers without the outputs
CountConsumersNoOutputs(g, id) ==
    Cardinality({m \in DOMAIN g.nodes : \E i \in 1..Len(g.nodes[m].inputs) : g.nodes[m].inputs[i] = id})

CountConsumers(g, id) ==
    Cardinality({m \in DOMAIN g.nodes : InSeq(id, g.nodes[m].inputs)})
        + (IF InSeq(id, g.outputs) THEN 1 ELSE 0)

Rename(seq, from, to) == [i \in 1..Len(seq) |-> IF seq[i] = from THEN to ELSE seq[i]]

\* the reorder without `filter_node.inputs = map_node.inputs.copy()`
SwapKeepingFilterInput(g, f, m) ==
    [g EXCEPT !.nodes[m].inputs = <<f>>,
              !.outputs = [i \in 1..Len(g.outputs) |-> IF g.outputs[i] = f THEN m ELSE g.outputs[i]]]

\* the reorder of one Map/Filter pair: lines 365-377
SwapFilterMap(g, f, m) ==
    LET g1 == [g EXCEPT !.nodes[f].inputs = g.nodes[m].inputs,
                        !.nodes[m].inputs = <<f>>]
    IN  [g1 EXCEPT !.nodes = [n \in DOMAIN g1.nodes |->
                                 IF n = m THEN g1.nodes[n]
                                 ELSE [g1.nodes[n] EXCEPT !.inputs = Rename(@, f, m)]],
                   !.outputs = Rename(@, f, m)]

RECURSIVE FilterBeforeMapFrom(_, _, _, _)
FilterBeforeMapFrom(g, ids, i, changes) ==
    IF i > Len(ids)
    THEN IF changes > 0
         THEN [g EXCEPT !.applied = Append(@, Applied("filter_before_map", changes))]
         ELSE g
    ELSE LET f == ids[i]
             node == g.nodes[f]
             skip == FilterBeforeMapFrom(g, ids, i + 1, changes)
         IN  IF node.kind # "filter" THEN skip
             ELSE IF Len(node.inputs) # 1 THEN skip
             ELSE IF node.inputs[1] \notin DOMAIN g.nodes THEN skip
             ELSE IF g.nodes[node.inputs[1]].kind # "map" THEN skip
             ELSE IF CountConsumers(g, node.inputs[1]) # 1 THEN skip
             ELSE IF Len(g.nodes[node.inputs[1]].fn) = 0 \/ Len(node.fn) = 0 THEN skip
             ELSE LET verdict == IsPredicateIndependent(g.nodes[node.inputs[1]].fn, node.fn)
                  IN  IF verdict = "yes"
                      THEN FilterBeforeMapFrom(SwapFilterMap(g, f, node.inputs[1]), ids, i + 1,
                                               changes + 1)
                      ELSE IF verdict = "no" THEN skip
                      ELSE [g EXCEPT !.err = verdict]

FilterBeforeMap(g) == FilterBeforeMapFrom(g, g.order, 1, 0)

PassNames ==
    <<"dead_code_elimination", "common_subexpression_elimination", "filter_fusion",
      "map_fusion", "filter_before_map">>

RunPass(g, name) ==
    CASE name = "dead_code_elimination" -> DeadCodeElimination(g)
      [] name = "common_subexpression_elimination" -> CommonSubexpressionElimination(g)
      [] name = "filter_fusion" -> FilterFusion(g)
      [] name = "map_fusion" -> MapFusion(g)
      [] name = "filter_before_map" -> FilterBeforeMap(g)
      [] OTHER -> [g EXCEPT !.err = "ValueError"]

\* GraphOptimizer.optimize(passes): the passes in turn, until one raises
RECURSIVE optimize(_, _, _)
optimize(g, passes, i) ==
    IF i > Len(passes) \/ g.err # "none" THEN g
    ELSE optimize(RunPass(g, passes[i]), passes, i + 1)

\* Graph.optimize(passes) on the graph of the state
Optimize(passes, op) ==
    LET g == optimize(G, passes, 1)
    IN  /\ nodes' = g.nodes
        /\ order' = g.order
        /\ outputs' = g.outputs
        /\ err' = g.err
        /\ applied' = g.applied
        /\ last' = op
        /\ UNCHANGED <<created, lib, kernel>>

DCE == Optimize(<<"dead_code_elimination">>, "dead_code_elimination")
CSE == Optimize(<<"common_subexpression_elimination">>, "common_subexpression_elimination")
FilterFusionPass == Optimize(<<"filter_fusion">>, "filter_fusion")
MapFusionPass == Optimize(<<"map_fusion">>, "map_fusion")
FilterBeforeMapPass == Optimize(<<"filter_before_map">>, "filter_before_map")
OptimizeDefault == Optimize(PassNames, "optimize")

(***************************************************************************)
(* solvers/profiler.py.  The store of a PerformanceProfiler is a dict from *)
(* (intent_type, strategy_name, input_size) to a ProfileRecord; a dict     *)
(* iterates in insertion order, so the store is the sequence of its        *)
(* records, no two with the same key.  Times are in microseconds           *)
(* (execution_time_ms * 1000), the samples chosen so that the moving       *)
(* average stays a whole number.                                           *)
(***************************************************************************)
ProfileRecord(intent_type, strategy_name, input_size, execution_time_ms, sample_count) ==
    [intent_type |-> intent_type, strategy_name |-> strategy_name,
     input_size |-> input_size, execution_time_ms |-> execution_time_ms,
     sample_count |-> sample_count]

\* ProfileRecord.update: alpha = 0.3
update(record, new_time_ms) ==
    [record EXCEPT !.execution_time_ms = (3 * new_time_ms + 7 * @) \div 10,
                   !.sample_count = @ + 1]

Key(record) == <<record.intent_type, record.strategy_name, record.input_size>>

\* the position of key in the store, 0 when the key is not in it
Position(profiles, key) ==
    LET at == {i \in 1..Len(profiles) : Key(profiles[i]) = key}
    IN  IF at = {} THEN 0 ELSE CHOOSE i \in at : TRUE

\* self.profiles[key] = record
SetRecord(profiles, record) ==
    LET at == Position(profiles, Key(record))
    IN  IF at = 0 THEN Append(profiles, record) ELSE [profiles EXCEPT ![at] = record]

\* rounding to the nearest multiple instead of down
BucketToNearest(size) ==
    IF size < 10 THEN size
    ELSE IF size < 100 THEN ((size + 5) \div 10) * 10
    ELSE IF size < 1000 THEN ((size + 50) \div 100) * 100
    ELSE ((size + 500) \div 1000) * 1000

bucket_size(size) ==
    IF size < 10 THEN size
    ELSE IF size < 100 THEN (size \div 10) * 10
    ELSE IF size < 1000 THEN (size \div 100) * 100
    ELSE (size \div 1000) * 1000

record_execution(profiles, intent_type, strategy_name, input_size, execution_time_ms) ==
    LET size_bucket == bucket_size(input_size)
        at == Position(profiles, <<intent_type, strategy_name, size_bucket>>)
    IN  IF at # 0 THEN [profiles EXCEPT ![at] = update(@, execution_time_ms)]
        ELSE Append(profiles, ProfileRecord(intent_type, strategy_name, size_bucket,
                                            execution_time_ms, 1))

(***************************************************************************)
(* The profile file.  A JSON text is the value it denotes: a number keeps  *)
(* whether it was written with a fraction (a float) or without (an int).   *)
(***************************************************************************)
JValue(t, n, s, items, fields) == [t |-> t, n |-> n, s |-> s, items |-> items, fields |-> fields]
JInt(n) == JValue("int", n, "", <<>>, <<>>)
JFloat(n) == JValue("float", n, "", <<>>, <<>>)
JStr(s) == JValue("string", 0, s, <<>>, <<>>)
JNull == JValue("null", 0, "", <<>>, <<>>)
JList(items) == JValue("list", 0, "", items, <<>>)
JObject(fields) == JValue("object", 0, "", <<>>, fields)

FieldNames ==
    {"intent_type", "strategy_name", "input_size", "execution_time_ms", "sample_count"}

\* asdict without the field sample_count
AsdictWithoutCount(record) ==
    JObject([f \in FieldNames \ {"sample_count"} |->
                CASE f = "intent_type" -> JStr(record.intent_type)
                  [] f = "strategy_name" -> JStr(record.strategy_name)
                  [] f = "input_size" -> JInt(record.input_size)
                  [] f = "execution_time_ms" -> JFloat(record.execution_time_ms)])

\* dataclasses.asdict(record), as json.dump writes it
asdict(record) ==
    JObject([f \in FieldNames |->
                CASE f = "intent_type" -> JStr(record.intent_type)
                  [] f = "strategy_name" -> JStr(record.strategy_name)
                  [] f = "input_size" -> JInt(record.input_size)
                  [] f = "execution_time_ms" -> JFloat(record.execution_time_ms)
                  [] f = "sample_count" -> JInt(record.sample_count)])

\* the states of the file: "missing", "unreadable" (a directory, no permission),
\* "undecodable" (bytes that are not UTF-8), "malformed" (a text that is not JSON,
\* the empty text included), or a JSON text
NotJson(kind) == [kind |-> kind, value |-> JNull]
Missing == NotJson("missing")
Json(value) == [kind |-> "json", value |-> value]

\* json.dump([asdict(record) for record in self.profiles.values()], f)
dump(profiles) == Json(JList([i \in 1..Len(profiles) |-> asdict(profiles[i])]))

\* the Python value of a JSON string or number
Decode(j) == IF j.t = "string" THEN j.s ELSE j.n

\* ProfileRecord(**record_dict) and the insertion under its key; TypeError when the
\* entry is no mapping, names an unknown field, lacks a field without default, or
\* holds a list or a dict in a field of the key
LoadedRecord(j) ==
    LET fs == j.fields
        given == DOMAIN fs
        field(f) == Decode(fs[f])
    IN  IF j.t # "object" \/ ~(given \subseteq FieldNames)
           \/ ~(FieldNames \ {"sample_count"} \subseteq given)
        THEN [err |-> "TypeError", record |-> ProfileRecord("", "", 0, 0, 0)]
        ELSE IF \E f \in {"intent_type", "strategy_name", "input_size"} :
                    fs[f].t \in {"list", "object"}
        THEN [err |-> "TypeError", record |-> ProfileRecord("", "", 0, 0, 0)]
        ELSE [err |-> "none",
              record |-> ProfileRecord(field("intent_type"), field("strategy_name"),
                                       field("input_size"), field("execution_time_ms"),
                                       IF "sample_count" \in given
                                       THEN field("sample_count") ELSE 1)]

RECURSIVE LoadFrom(_, _, _)
LoadFrom(items, i, profiles) ==
    IF i > Len(items) THEN [err |-> "none", profiles |-> profiles]
    ELSE LET r == LoadedRecord(items[i])
         IN  IF r.err # "none" THEN [err |-> r.err, profiles |-> profiles]
             ELSE LoadFrom(items, i + 1, SetRecord(profiles, r.record))

\* what `for record_dict in data` walks over: the items of a list, the keys of an
\* object, the characters of a string
Iterated(j) ==
    CASE j.t = "list" -> j.items
      [] j.t = "object" ->
            IF DOMAIN j.fields = {} THEN <<>> ELSE <<JStr(CHOOSE f \in DOMAIN j.fields : TRUE)>>
      [] j.t = "string" -> IF j.s = "" THEN <<>> ELSE <<JStr(j.s)>>
      [] OTHER -> <<>>

\* load_profiles on a store that holds profiles; only JSONDecodeError and IOError
\* are caught
load_profiles(profiles, f) ==
    CASE f.kind \in {"missing", "unreadable", "malformed"} ->
            [err |-> "none", profiles |-> profiles]
      [] f.kind = "undecodable" -> [err |-> "UnicodeDecodeError", profiles |-> profiles]
      [] f.kind = "json" ->
            IF f.value.t \in {"int", "float", "null"}
            THEN [err |-> "TypeError", profiles |-> profiles]
            ELSE LoadFrom(Iterated(f.value), 1, profiles)

\* no PerformanceProfiler has been constructed in the process
NoProfiler == [made |-> FALSE, profiles |-> <<>>]

\* PerformanceProfiler.__init__
NewProfilerOn(f) ==
    LET r == load_profiles(<<>>, f)
    IN  [err |-> r.err, profiler |-> [made |-> TRUE, profiles |-> r.profiles]]

\* get_profiler(): the profiler of the process, constructed on first use
get_profiler ==
    IF profiler.made THEN [err |-> "none", profiler |-> profiler] ELSE NewProfilerOn(file)

\* _find_similar_profile: the first record closest in size, 0 when there is none
find_similar_profile(profiles, intent_type, strategy_name, size) ==
    LET candidates == {i \in 1..Len(profiles) :
                          /\ profiles[i].intent_type = intent_type
                          /\ profiles[i].strategy_name = strategy_name}
        d(i) == IF profiles[i].input_size < size THEN size - profiles[i].input_size
                ELSE profiles[i].input_size - size
    IN  IF candidates = {} THEN 0
        ELSE CHOOSE i \in candidates :
                \A k \in candidates : d(i) < d(k) \/ (d(i) = d(k) /\ i <= k)

\* base_cost * 1000
default_cost_estimate(intent_type, input_size) ==
    (CASE intent_type \in {"filter", "map"} -> 1000
       [] intent_type \in {"reduce", "distinct"} -> 1500
       [] intent_type \in {"sort", "group_by"} -> 2000
       [] intent_type = "join" -> 3000
       [] intent_type = "flatten" -> 500
       [] OTHER -> 1000) * input_size

\* the cost is the fraction num / den
get_cost_estimate(profiles, intent_type, strategy_name, input_size) ==
    LET size_bucket == bucket_size(input_size)
        at == Position(profiles, <<intent_type, strategy_name, size_bucket>>)
        similar == find_similar_profile(profiles, intent_type, strategy_name, size_bucket)
    IN  IF at # 0 THEN [err |-> "none", num |-> profiles[at].execution_time_ms, den |-> 1]
        ELSE IF similar # 0
        THEN IF profiles[similar].input_size = 0
             THEN [err |-> "ZeroDivisionError", num |-> 0, den |-> 1]
             ELSE [err |-> "none", num |-> profiles[similar].execution_time_ms * input_size,
                   den |-> profiles[similar].input_size]
        ELSE [err |-> "none", num |-> default_cost_estimate(intent_type, input_size),
              den |-> 1]

(***************************************************************************)
(* solvers/strategies.py and solvers/kernel.py: the choice of a strategy   *)
(* for each node of the execution order and the plan the choices make.     *)
(***************************************************************************)
\* self.strategies of a SolverKernel
Strategies == <<"OptimizedStrategy", "NaiveStrategy">>

Modes == {"speed", "memory", "balanced"}

can_handle(strategy, kind) ==
    IF strategy = "NaiveStrategy"
    THEN kind \in {"filter", "map", "reduce", "input", "output", "constant"}
    ELSE kind \in {"filter", "map", "reduce", "input", "output", "constant",
                   "sort", "group_by", "join", "flatten", "distinct"}

\* _estimate_input_size; hints is _size_metadata
RECURSIVE estimate_input_size(_, _, _)
estimate_input_size(g, hints, n) ==
    IF n \in DOMAIN hints THEN hints[n]
    ELSE IF Len(g.nodes[n].inputs) = 0 THEN 1000
    ELSE LET base_size == estimate_input_size(g, hints, g.nodes[n].inputs[1])
             kind == g.nodes[n].kind
         IN  CASE kind = "filter" -> base_size \div 2
               [] kind = "map" -> base_size
               [] kind = "flatten" -> base_size * 2
               [] kind = "distinct" -> base_size \div 2
               [] kind = "group_by" ->
                     IF base_size \div 10 < 100 THEN base_size \div 10 ELSE 100
               [] kind = "reduce" -> 1
               [] OTHER -> 1000

\* the first capable strategy, whatever the costs
FirstCapable(capable, costs) ==
    CHOOSE i \in 1..Len(capable) : \A k \in 1..Len(capable) : i <= k

\* min(strategy_costs, key=cost): the first of the cheapest
Cheapest(capable, costs) ==
    LET below(x, y) == x.num * y.den < y.num * x.den
    IN  CHOOSE i \in 1..Len(capable) :
            \A k \in 1..Len(capable) :
                below(costs[i], costs[k]) \/ (~below(costs[k], costs[i]) /\ i <= k)

\* _select_strategy of a kernel whose _strategy_cache has no entry for the node.
\* In memory mode `naive in capable_strategies` compares a new NaiveStrategy with
\* the instances of self.strategies by identity, so it is never found.
select_strategy(g, hints, profiles, n, optimize_for) ==
    LET kind == g.nodes[n].kind
        capable == SelectSeq(Strategies, LAMBDA s : can_handle(s, kind))
        bucketed_size == bucket_size(estimate_input_size(g, hints, n))
        costs == [i \in 1..Len(capable) |->
                     get_cost_estimate(profiles, kind, capable[i], bucketed_size)]
        failed == {i \in 1..Len(capable) : costs[i].err # "none"}
    IN  IF Len(capable) = 0 THEN [err |-> "ValueError", strategy |-> ""]
        ELSE IF optimize_for = "speed"
        THEN IF failed # {}
             THEN [err |-> costs[CHOOSE i \in failed : \A k \in failed : i <= k].err,
                   strategy |-> ""]
             ELSE [err |-> "none", strategy |-> capable[Cheapest(capable, costs)]]
        ELSE [err |-> "none", strategy |-> capable[1]]

\* the strategies _generate_code selects along the execution order, up to the
\* first selection that raises
RECURSIVE SelectFrom(_, _, _, _, _, _)
SelectFrom(g, profiles, optimize_for, ord, i, chosen) ==
    IF i > Len(ord) THEN [err |-> "none", strategy |-> chosen]
    ELSE LET r == select_strategy(g, <<>>, profiles, ord[i], optimize_for)
         IN  IF r.err # "none" THEN [err |-> r.err, strategy |-> chosen]
             ELSE SelectFrom(g, profiles, optimize_for, ord, i + 1,
                             chosen @@ (ord[i] :> r.strategy))

NoPlan == [made |-> FALSE, order |-> <<>>, nodes |-> <<>>, strategy |-> <<>>,
           outputs |-> <<>>, optimize_for |-> ""]

\* SolverKernel(graph, profiler).compile(optimize_for): the plan holds the source
\* text generated from the nodes and, in exec_globals, the callables the nodes had
SolverKernelCompile(g, profiles, optimize_for) ==
    LET eo == GetExecutionOrder(g)
        sel == SelectFrom(g, profiles, optimize_for, eo.order, 1, <<>>)
    IN  IF ~eo.ok THEN [err |-> "KeyError", plan |-> NoPlan]
        ELSE IF sel.err # "none" THEN [err |-> sel.err, plan |-> NoPlan]
        ELSE IF \/ Len(g.outputs) = 0
                \/ \E a, b \in InputNodes(g) : a # b /\ g.nodes[a].name = g.nodes[b].name
        THEN [err |-> "SyntaxError", plan |-> NoPlan]
        ELSE [err |-> "none",
              plan |-> [made |-> TRUE, order |-> eo.order,
                        nodes |-> [n \in DOMAIN sel.strategy |-> g.nodes[n]],
                        strategy |-> sel.strategy, outputs |-> g.outputs,
                        optimize_for |-> optimize_for]]

\* operator.add folded over s from acc
RECURSIVE Fold(_, _, _)
Fold(s, i, acc) == IF i > Len(s) THEN acc ELSE Fold(s, i + 1, acc + s[i])

\* the callable looked up in the graph when the plan runs
PlanCallableOfGraph(p, g, n) == IF n \in DOMAIN g.nodes THEN g.nodes[n].fn ELSE p.nodes[n].fn

\* the callable a plan p calls for its node n while the graph is g: the one
\* exec_globals has held since compile
PlanCallable(p, g, n) == p.nodes[n].fn

\* NaiveStrategy.generate_code: the loops; a reduce without initial starts from
\* next(iter(input))
NaiveGenerateCode(p, g, n, env, xs) ==
    LET nd == p.nodes[n]
        in == env[nd.inputs[1]]
    IN  CASE nd.kind = "input" -> OkSeq("list", xs)
          [] nd.kind = "constant" -> OkSeq("tuple", nd.val)
          [] nd.kind \in {"filter", "map", "reduce"} /\ in.k = "int" -> RaiseSeq("TypeError")
          [] nd.kind = "filter" /\ in.k # "int" -> FilterFrom(PlanCallable(p, g, n), in.v, 1, <<>>)
          [] nd.kind = "map" /\ in.k # "int" -> MapFrom(PlanCallable(p, g, n), in.v, 1, <<>>)
          [] nd.kind = "reduce" /\ in.k # "int" ->
                IF Len(nd.val) > 0 THEN OkSeq("int", <<Fold(in.v, 1, nd.val[1])>>)
                ELSE IF Len(in.v) = 0 THEN RaiseSeq("StopIteration")
                ELSE OkSeq("int", <<Fold(in.v, 2, in.v[1])>>)
          [] OTHER -> RaiseSeq("NotImplementedError")

\* OptimizedStrategy.generate_code: filter(), a comprehension, functools.reduce
OptimizedGenerateCode(p, g, n, env, xs) ==
    LET nd == p.nodes[n]
        in == env[nd.inputs[1]]
    IN  CASE nd.kind = "input" -> OkSeq("list", xs)
          [] nd.kind = "constant" -> OkSeq("tuple", nd.val)
          [] nd.kind \in {"filter", "map", "reduce"} /\ in.k = "int" -> RaiseSeq("TypeError")
          [] nd.kind = "filter" /\ in.k # "int" -> FilterFrom(PlanCallable(p, g, n), in.v, 1, <<>>)
          [] nd.kind = "map" /\ in.k # "int" -> MapFrom(PlanCallable(p, g, n), in.v, 1, <<>>)
          [] nd.kind = "reduce" /\ in.k # "int" ->
                IF Len(nd.val) > 0 THEN OkSeq("int", <<Fold(in.v, 1, nd.val[1])>>)
                ELSE IF Len(in.v) = 0 THEN RaiseSeq("TypeError")
                ELSE OkSeq("int", <<Fold(in.v, 2, in.v[1])>>)
          [] OTHER -> RaiseSeq("NotImplementedError")

\* the body of the plan from its i-th action on
RECURSIVE RunPlanFrom(_, _, _, _, _)
RunPlanFrom(p, g, i, env, xs) ==
    IF i > Len(p.order) THEN [ok |-> TRUE, env |-> env, e |-> ""]
    ELSE LET n == p.order[i]
             r == IF p.strategy[n] = "NaiveStrategy" THEN NaiveGenerateCode(p, g, n, env, xs)
                  ELSE OptimizedGenerateCode(p, g, n, env, xs)
         IN  IF r.ok THEN RunPlanFrom(p, g, i + 1, env @@ (n :> [k |-> r.k, v |-> r.v]), xs)
             ELSE [ok |-> FALSE, env |-> env, e |-> r.e]

\* fn(data=xs) of a plan p, called while the graph is g
RunPlan(p, g, xs) ==
    LET run == RunPlanFrom(p, g, 1, <<>>, xs)
    IN  IF ~run.ok THEN [st |-> "raise", e |-> run.e, single |-> FALSE, outs |-> <<>>]
        ELSE [st |-> "ok", e |-> "", single |-> Len(p.outputs) = 1,
              outs |-> [i \in 1..Len(p.outputs) |-> run.env[p.outputs[i]]]]

\* Graph.compile(optimize_for, auto_optimize): the default passes when asked, then
\* a new SolverKernel on the profiler of the process.  plan is the plan the caller
\* holds: the first one a compile returned.
Compile(optimize_for, auto_optimize) ==
    LET g == IF auto_optimize THEN optimize(G, PassNames, 1) ELSE G
        prof == get_profiler
        c == SolverKernelCompile(g, prof.profiler.profiles, optimize_for)
        raised == IF g.err # "none" THEN g.err
                  ELSE IF prof.err # "none" THEN prof.err
                  ELSE c.err
    IN  /\ nodes' = g.nodes
        /\ order' = g.order
        /\ outputs' = g.outputs
        /\ applied' = IF auto_optimize THEN g.applied ELSE applied
        /\ profiler' = IF g.err = "none" /\ prof.err = "none" THEN prof.profiler ELSE profiler
        /\ plan' = IF raised = "none" /\ ~plan.made THEN c.plan ELSE plan
        /\ err' = raised
        /\ last' = "compile"
        /\ UNCHANGED <<created, lib, file, threads, solver>>

\* get_profiler().record_execution(intent_type, strategy_name, input_size, time)
RecordExecution(intent_type, strategy_name, input_size, execution_time_ms) ==
    LET prof == get_profiler
        at == Position(prof.profiler.profiles,
                       <<intent_type, strategy_name, bucket_size(input_size)>>)
    IN  /\ IF at = 0 THEN Len(prof.profiler.profiles) < lib.maxRecords
           ELSE prof.profiler.profiles[at].sample_count < lib.maxSamples
        /\ profiler' = IF prof.err # "none" THEN profiler
                       ELSE [made |-> TRUE,
                             profiles |-> record_execution(prof.profiler.profiles, intent_type,
                                                           strategy_name, input_size,
                                                           execution_time_ms)]
        /\ err' = prof.err
        /\ last' = "record_execution"
        /\ UNCHANGED <<nodes, order, outputs, created, applied, lib, file, plan, threads, solver>>

\* get_profiler().get_cost_estimate(intent_type, strategy_name, input_size); the
\* cost goes to the caller
GetCostEstimate(intent_type, strategy_name, input_size) ==
    LET prof == get_profiler
        cost == get_cost_estimate(prof.profiler.profiles, intent_type, strategy_name,
                                  input_size)
    IN  /\ profiler' = IF prof.err # "none" THEN profiler ELSE prof.profiler
        /\ err' = IF prof.err # "none" THEN prof.err ELSE cost.err
        /\ last' = "get_cost_estimate"
        /\ UNCHANGED <<nodes, order, outputs, created, applied, lib, file, plan, threads,
                       solver>>

\* PerformanceProfiler(profile_file): the profiler the caller uses from now on
NewProfiler ==
    LET r == NewProfilerOn(file)
    IN  /\ profiler' = IF r.err = "none" THEN r.profiler ELSE profiler
        /\ err' = r.err
        /\ last' = "PerformanceProfiler"
        /\ UNCHANGED <<nodes, order, outputs, created, applied, lib, file, plan, threads, solver>>

\* save_profiles: the file is written, or open() raised IOError and the file is as
\* it was, or a write raised IOError after open() had truncated the file; IOError
\* is swallowed
SaveProfiles(outcome) ==
    /\ profiler.made
    /\ file' = CASE outcome = "written" -> dump(profiler.profiles)
                 [] outcome = "open_failed" -> file
                 [] outcome = "write_failed" -> NotJson("malformed")
    /\ last' = IF outcome = "written" THEN "save_profiles" ELSE "save_profiles_failed"
    /\ err' = "none"
    /\ UNCHANGED <<nodes, order, outputs, created, applied, lib, profiler, plan, threads, solver>>

\* a complete record as a JSON object, with or without sample_count
JRecord(intent_type, strategy_name, input_size, execution_time_ms, counts) ==
    JObject([f \in FieldNames \ (IF Len(counts) = 0 THEN {"sample_count"} ELSE {}) |->
                CASE f = "intent_type" -> JStr(intent_type)
                  [] f = "strategy_name" -> JStr(strategy_name)
                  [] f = "input_size" -> JInt(input_size)
                  [] f = "execution_time_ms" -> JFloat(execution_time_ms)
                  [] f = "sample_count" -> JInt(counts[1])])

\* what another program may have left in the profile file
FileContents ==
    {NotJson("missing"), NotJson("malformed"), NotJson("unreadable"), NotJson("undecodable"),
     Json(JInt(5)), Json(JNull), Json(JStr("")), Json(JStr("ab")),
     Json(JObject([f \in {} |-> JNull])), Json(JObject([f \in {"a"} |-> JInt(1)])),
     Json(JList(<<>>)), Json(JList(<<JInt(1)>>)),
     Json(JList(<<JObject([f \in {"intent_type"} |-> JStr("map")])>>)),
     Json(JList(<<JRecord("map", "NaiveStrategy", 5, 100, <<2>>),
                  JObject([f \in {"x"} |-> JInt(1)])>>)),
     Json(JList(<<JRecord("map", "NaiveStrategy", 5, 100, <<>>)>>)),
     Json(JList(<<JRecord("map", "NaiveStrategy", 5, 100, <<2>>),
                  JRecord("map", "NaiveStrategy", 5, 500, <<3>>)>>))}

WriteFile(content) ==
    /\ file' = content
    /\ last' = "file"
    /\ err' = "none"
    /\ UNCHANGED <<nodes, order, outputs, created, applied, lib, profiler, plan, threads, solver>>

(***************************************************************************)
(* Threads that call record_execution on the profiler of the process.  The *)
(* method takes no lock, so another thread may run between the test        *)
(* `key in self.profiles` and the statement the test selects: the          *)
(* interpreter hands over at the calls in between (ProfileRecord(...),     *)
(* update(...)).  A thread is outside the method ("idle") or has made the  *)
(* test ("checked"); calls counts, by key, the calls that were started.    *)
(***************************************************************************)
(***************************************************************************)
(* A SolverKernel the caller constructs once and compiles with several     *)
(* times: its _strategy_cache and _size_metadata live as long as it does.  *)
(* chosen and optimize_for are what its last compile selected and for what.*)
(***************************************************************************)
\* SolverKernel(graph): nothing cached, no size hint
NoKernel == [cache |-> <<>>, hints |-> <<>>, chosen |-> <<>>, optimize_for |-> ""]

\* _select_strategy on the kernel k: the capable strategies, the cache, then the
\* choice of the mode, which is cached
SelectStrategy(g, k, profiles, n, optimize_for) ==
    LET cache_key == <<n, bucket_size(estimate_input_size(g, k.hints, n)), optimize_for>>
        r == select_strategy(g, k.hints, profiles, n, optimize_for)
    IN  IF r.err = "ValueError" THEN [err |-> r.err, strategy |-> "", cache |-> k.cache]
        ELSE IF cache_key \in DOMAIN k.cache
        THEN [err |-> "none", strategy |-> k.cache[cache_key], cache |-> k.cache]
        ELSE IF r.err # "none" THEN [err |-> r.err, strategy |-> "", cache |-> k.cache]
        ELSE [err |-> "none", strategy |-> r.strategy,
              cache |-> (cache_key :> r.strategy) @@ k.cache]

\* the selections _generate_code makes on the kernel k along the execution order, up
\* to the first that raises
RECURSIVE SelectAlong(_, _, _, _, _, _, _)
SelectAlong(g, k, profiles, optimize_for, ord, i, chosen) ==
    IF i > Len(ord) THEN [err |-> "none", strategy |-> chosen, cache |-> k.cache]
    ELSE LET r == SelectStrategy(g, k, profiles, ord[i], optimize_for)
         IN  IF r.err # "none" THEN [err |-> r.err, strategy |-> chosen, cache |-> r.cache]
             ELSE SelectAlong(g, [k EXCEPT !.cache = r.cache], profiles, optimize_for, ord,
                              i + 1, chosen @@ (ord[i] :> r.strategy))

\* compile(optimize_for) of the kernel the caller holds, on the graph as it is now
KernelCompile(optimize_for) ==
    LET prof == get_profiler
        eo == GetExecutionOrder(G)
        sel == SelectAlong(G, solver, prof.profiler.profiles, optimize_for, eo.order, 1, <<>>)
        raised == IF prof.err # "none" THEN prof.err
                  ELSE IF ~eo.ok THEN "KeyError"
                  ELSE IF sel.err # "none" THEN sel.err
                  ELSE IF \/ Len(outputs) = 0
                          \/ \E a, b \in InputNodes(G) : a # b /\ nodes[a].name = nodes[b].name
                  THEN "SyntaxError"
                  ELSE "none"
    IN  /\ profiler' = IF prof.err = "none" THEN prof.profiler ELSE profiler
        /\ solver' = IF prof.err # "none" \/ ~eo.ok THEN solver
                      ELSE [solver EXCEPT !.cache = sel.cache, !.chosen = sel.strategy,
                                          !.optimize_for = optimize_for]
        /\ plan' = IF raised = "none" /\ ~plan.made
                    THEN [made |-> TRUE, order |-> eo.order,
                          nodes |-> [n \in DOMAIN sel.strategy |-> nodes[n]],
                          strategy |-> sel.strategy, outputs |-> outputs,
                          optimize_for |-> optimize_for]
                    ELSE plan
        /\ err' = raised
        /\ last' = "SolverKernel.compile"
        /\ UNCHANGED <<nodes, order, outputs, created, applied, lib, file, threads>>

\* set_size_hint(node_id, size): no check that node_id names a node
SetSizeHint(node_id, size) ==
    /\ solver' = [solver EXCEPT !.hints = (node_id :> size) @@ @]
    /\ err' = "none"
    /\ last' = "set_size_hint"
    /\ UNCHANGED <<nodes, order, outputs, created, applied, lib, profiler, file, plan, threads>>

NoThreads ==
    [at |-> [t \in 1..ThreadCount |->
                [pc |-> "idle", intent_type |-> "", strategy_name |-> "", input_size |-> 0,
                 execution_time_ms |-> 0, found |-> FALSE]],
     calls |-> <<>>]

\* record_execution, lines 64-67: the key and the test `key in self.profiles`
RecordExecutionTest(t, intent_type, strategy_name, input_size, execution_time_ms) ==
    LET prof == get_profiler
        key == <<intent_type, strategy_name, bucket_size(input_size)>>
        started == IF key \in DOMAIN threads.calls THEN threads.calls[key] ELSE 0
    IN  /\ threads.at[t].pc = "idle"
        /\ prof.err = "none"
        /\ started < lib.maxCalls
        /\ profiler' = prof.profiler
        /\ threads' = [at |-> [threads.at EXCEPT ![t] =
                                  [pc |-> "checked", intent_type |-> intent_type,
                                   strategy_name |-> strategy_name, input_size |-> input_size,
                                   execution_time_ms |-> execution_time_ms,
                                   found |-> Position(prof.profiler.profiles, key) # 0]],
                        calls |-> (key :> started + 1) @@ threads.calls]
        /\ last' = "key in self.profiles"
        /\ err' = "none"
        /\ UNCHANGED <<nodes, order, outputs, created, applied, lib, file, plan, solver>>

\* record_execution, lines 68-75: the branch the test selected, on the store as it
\* is now
RecordExecutionStore(t) ==
    LET my == threads.at[t]
        record == ProfileRecord(my.intent_type, my.strategy_name, bucket_size(my.input_size),
                                my.execution_time_ms, 1)
    IN  /\ my.pc = "checked"
        /\ profiler' = [profiler EXCEPT !.profiles =
                           IF my.found
                           THEN record_execution(@, my.intent_type, my.strategy_name,
                                                 my.input_size, my.execution_time_ms)
                           ELSE SetRecord(@, record)]
        /\ threads' = [threads EXCEPT !.at[t] = NoThreads.at[t]]
        /\ last' = "record_execution"
        /\ err' = "none"
        /\ UNCHANGED <<nodes, order, outputs, created, applied, lib, file, plan, solver>>

(***************************************************************************)
(* The builder alone, called with identifiers that may name no node.       *)
(***************************************************************************)
EmptyGraph ==
    /\ nodes = <<>>
    /\ order = <<>>
    /\ outputs = <<>>
    /\ created = 0
    /\ last = "init"
    /\ err = "none"
    /\ applied = <<>>
    /\ profiler = NoProfiler
    /\ file = Missing
    /\ plan = NoPlan
    /\ threads = NoThreads
    /\ solver = NoKernel

Library(n, o, ts, ps, unknown) ==
    [maxNodes |-> n, maxOutputs |-> o, transforms |-> ts, predicates |-> ps,
     unknown |-> unknown, ids |-> [k \in 1..n |-> k]]

\* the measurements a caller records: how many, for which kinds, sizes and times
Measurements(records, samples, intents, sizes, times) ==
    [maxRecords |-> records, maxSamples |-> samples, intents |-> intents,
     sizes |-> sizes, times |-> times]

InitBuilder ==
    /\ EmptyGraph
    /\ lib = Library(BuilderNodes, MaxOutputs, {"inc"}, {"nonneg"}, TRUE)

NextBuilder ==
    \/ Input
    \/ \E v \in ConstVals : Constant(v)
    \/ \E i \in IdArgs, p \in lib.predicates : Filter(i, p)
    \/ \E i \in IdArgs, t \in lib.transforms : Map(i, t)
    \/ \E i \in IdArgs : Reduce(i, <<>>)
    \/ \E i \in IdArgs : Sort(i)
    \/ \E i \in IdArgs, t \in lib.transforms : GroupBy(i, t)
    \/ \E l \in IdArgs, r \in IdArgs : Join(l, r)
    \/ \E i \in IdArgs : Flatten(i)
    \/ \E i \in IdArgs : Distinct(i)
    \/ \E i \in IdArgs, p \in lib.predicates : AssertInvariant(i, p)
    \/ \E n \in IdArgs : Output(n)

SpecBuilder == InitBuilder /\ [][NextBuilder]_vars

(***************************************************************************)
(* Graphs built from identifiers of the graph, and the optimizer on them.  *)
(***************************************************************************)
Init ==
    /\ EmptyGraph
    /\ lib = Library(MaxNodes, MaxOutputs, Transforms, Predicates, FALSE)

Next ==
    \/ Input
    \/ \E v \in ConstVals : Constant(v)
    \/ \E i \in IdArgs, p \in lib.predicates : Filter(i, p)
    \/ \E i \in IdArgs, t \in lib.transforms : Map(i, t)
    \/ \E n \in IdArgs : Output(n)
    \/ DCE
    \/ CSE
    \/ FilterFusionPass
    \/ MapFusionPass
    \/ FilterBeforeMapPass
    \/ OptimizeDefault

Spec == Init /\ [][Next]_vars

(***************************************************************************)
(* Deeper graphs over one transform and one predicate that the probes find *)
(* independent (min(x, 200) does not change the sign of x).                *)
(***************************************************************************)
InitDeep ==
    /\ EmptyGraph
    /\ lib = Library(DeepNodes, DeepOutputs, {"clamp"}, {"nonneg"}, FALSE)

NextDeep ==
    \/ Input
    \/ \E i \in IdArgs, p \in lib.predicates : Filter(i, p)
    \/ \E i \in IdArgs, t \in lib.transforms : Map(i, t)
    \/ \E n \in IdArgs : Output(n)
    \/ DCE
    \/ CSE
    \/ FilterFusionPass
    \/ MapFusionPass
    \/ FilterBeforeMapPass
    \/ OptimizeDefault

SpecDeep == InitDeep /\ [][NextDeep]_vars

(***************************************************************************)
(* Graphs of filters alone under filter fusion and CSE, and of maps alone  *)
(* under map fusion.                                                       *)
(***************************************************************************)
InitFilters ==
    /\ EmptyGraph
    /\ lib = Library(ChainNodes, MaxOutputs, {}, Predicates, FALSE)

NextFilters ==
    \/ Input
    \/ \E i \in IdArgs, p \in lib.predicates : Filter(i, p)
    \/ \E n \in IdArgs : Output(n)
    \/ FilterFusionPass
    \/ CSE

SpecFilters == InitFilters /\ [][NextFilters]_vars

InitMaps ==
    /\ EmptyGraph
    /\ lib = Library(ChainNodes, MaxOutputs, Transforms, {}, FALSE)

NextMaps ==
    \/ Input
    \/ \E i \in IdArgs, t \in lib.transforms : Map(i, t)
    \/ \E n \in IdArgs : Output(n)
    \/ MapFusionPass

SpecMaps == InitMaps /\ [][NextMaps]_vars

(***************************************************************************)
(* Graphs with assert_invariant nodes, compiled in every mode with and     *)
(* without the automatic optimization.                                     *)
(***************************************************************************)
InitAssert ==
    /\ EmptyGraph
    /\ lib = Library(AssertNodes, MaxOutputs, {}, {"nonneg"}, FALSE)

NextAssert ==
    \/ Input
    \/ \E i \in IdArgs, p \in lib.predicates : Filter(i, p)
    \/ \E i \in IdArgs, p \in lib.predicates : AssertInvariant(i, p)
    \/ \E n \in IdArgs : Output(n)
    \/ \E optimize_for \in Modes, auto_optimize \in BOOLEAN : Compile(optimize_for, auto_optimize)

SpecAssert == InitAssert /\ [][NextAssert]_vars

(***************************************************************************)
(* Graphs of maps and reduces compiled in the three modes by a kernel      *)
(* whose profiler holds measurements.                                      *)
(***************************************************************************)
InitModes ==
    /\ EmptyGraph
    /\ lib = Library(ModeNodes, DeepOutputs, {"inc"}, {}, FALSE)
             @@ Measurements(MaxRecords, MaxSamples, {"reduce"}, {1}, {100, 2000})

NextModes ==
    \/ Input
    \/ \E i \in IdArgs, t \in lib.transforms : Map(i, t)
    \/ \E i \in IdArgs, initial \in {<<>>, <<0>>} : Reduce(i, initial)
    \/ \E n \in IdArgs : Output(n)
    \/ \E optimize_for \in Modes : Compile(optimize_for, FALSE)
    \/ \E intent_type \in lib.intents, i \in 1..Len(Strategies), input_size \in lib.sizes,
          execution_time_ms \in lib.times :
          RecordExecution(intent_type, Strategies[i], input_size, execution_time_ms)

SpecModes == InitModes /\ [][NextModes]_vars

(***************************************************************************)
(* Well-formed graphs whose predicates include one that raises an          *)
(* exception outside the classes the probes of filter_before_map catch.    *)
(***************************************************************************)
InitTotal ==
    /\ EmptyGraph
    /\ lib = Library(TotalNodes, DeepOutputs, {"clamp"}, {"nonneg", "small"}, FALSE)

NextTotal ==
    \/ Input
    \/ \E i \in IdArgs, p \in lib.predicates : Filter(i, p)
    \/ \E i \in IdArgs, t \in lib.transforms : Map(i, t)
    \/ \E n \in IdArgs : Output(n)
    \/ DCE
    \/ CSE
    \/ FilterFusionPass
    \/ MapFusionPass
    \/ FilterBeforeMapPass
    \/ OptimizeDefault

SpecTotal == InitTotal /\ [][NextTotal]_vars

(***************************************************************************)
(* The passes on graphs built with identifiers that may name no node: map  *)
(* stores such an identifier without looking it up.                        *)
(***************************************************************************)
InitDangling ==
    /\ EmptyGraph
    /\ lib = Library(DanglingNodes, DeepOutputs, {"clamp"}, {"nonneg"}, TRUE)

NextDangling ==
    \/ Input
    \/ \E i \in IdArgs, p \in lib.predicates : Filter(i, p)
    \/ \E i \in IdArgs, t \in lib.transforms : Map(i, t)
    \/ \E n \in IdArgs : Output(n)
    \/ DCE
    \/ CSE
    \/ FilterFusionPass
    \/ MapFusionPass
    \/ FilterBeforeMapPass
    \/ OptimizeDefault

SpecDangling == InitDangling /\ [][NextDangling]_vars

(***************************************************************************)
(* Graphs that are compiled and then optimized, extended and compiled      *)
(* again while the caller holds the first plan.                            *)
(***************************************************************************)
InitFrozen ==
    /\ EmptyGraph
    /\ lib = Library(FrozenNodes, DeepOutputs, {"inc"}, {"nonneg"}, FALSE)

NextFrozen ==
    \/ Input
    \/ \E i \in IdArgs, p \in lib.predicates : Filter(i, p)
    \/ \E i \in IdArgs, t \in lib.transforms : Map(i, t)
    \/ \E n \in IdArgs : Output(n)
    \/ \E optimize_for \in Modes, auto_optimize \in BOOLEAN : Compile(optimize_for, auto_optimize)
    \/ FilterFusionPass
    \/ MapFusionPass
    \/ OptimizeDefault

SpecFrozen == InitFrozen /\ [][NextFrozen]_vars

(***************************************************************************)
(* A profiler that records measurements, saves them and is constructed     *)
(* again on the file, which other programs may have written.               *)
(***************************************************************************)
InitProfiler ==
    /\ EmptyGraph
    /\ lib = Library(MaxNodes, MaxOutputs, {}, {}, FALSE)
             @@ Measurements(StoreRecords, MaxSamples, {"map"}, {5, 105}, {100, 500})

NextProfiler ==
    \/ NewProfiler
    \/ \E intent_type \in lib.intents, i \in 1..Len(Strategies), input_size \in lib.sizes,
          execution_time_ms \in lib.times :
          RecordExecution(intent_type, Strategies[i], input_size, execution_time_ms)
    \/ \E outcome \in {"written", "open_failed", "write_failed"} : SaveProfiles(outcome)
    \/ \E content \in FileContents : WriteFile(content)

SpecProfiler == InitProfiler /\ [][NextProfiler]_vars

(***************************************************************************)
(* Threads that record measurements on the profiler of the process, with   *)
(* no synchronization of their own.                                        *)
(***************************************************************************)
InitThreads ==
    /\ EmptyGraph
    /\ lib = Library(MaxNodes, MaxOutputs, {}, {}, FALSE)
             @@ Measurements(MaxRecords, MaxSamples, {"map"}, {5}, {100, 500})
             @@ [maxCalls |-> ThreadCalls]

NextThreads ==
    \/ \E t \in 1..ThreadCount, intent_type \in lib.intents, i \in 1..Len(Strategies),
          input_size \in lib.sizes, execution_time_ms \in lib.times :
          RecordExecutionTest(t, intent_type, Strategies[i], input_size, execution_time_ms)
    \/ \E t \in 1..ThreadCount : RecordExecutionStore(t)

SpecThreads == InitThreads /\ [][NextThreads]_vars

(***************************************************************************)
(* One SolverKernel that compiles its graph again and again while          *)
(* measurements are recorded and size hints are set.                       *)
(***************************************************************************)
InitKernel ==
    /\ EmptyGraph
    /\ lib = Library(KernelNodes, DeepOutputs, {"inc"}, {}, FALSE)
             @@ Measurements(MaxRecords, KernelSamples, {"map"}, {1000}, {100, 2000})
             @@ [hints |-> {5}]

NextKernel ==
    \/ Input
    \/ \E i \in IdArgs, t \in lib.transforms : Map(i, t)
    \/ \E n \in IdArgs : Output(n)
    \/ \E intent_type \in lib.intents, i \in 1..Len(Strategies), input_size \in lib.sizes,
          execution_time_ms \in lib.times :
          RecordExecution(intent_type, Strategies[i], input_size, execution_time_ms)
    \/ \E optimize_for \in {"speed", "memory"} : KernelCompile(optimize_for)
    \/ \E node_id \in IdArgs, size \in lib.hints : SetSizeHint(node_id, size)

SpecKernel == InitKernel /\ [][NextKernel]_vars

(***************************************************************************)
(* filter_before_map on graphs whose callables the probes accept, reject   *)
(* or cannot evaluate.                                                     *)
(***************************************************************************)
InitProbes ==
    /\ EmptyGraph
    /\ lib = Library(ProbeNodes, DeepOutputs, {"double", "upper", "abs", "clamp"},
                     {"gt10", "len3", "sqrt3", "nonneg"}, FALSE)

NextProbes ==
    \/ Input
    \/ \E i \in IdArgs, p \in lib.predicates : Filter(i, p)
    \/ \E i \in IdArgs, t \in lib.transforms : Map(i, t)
    \/ \E n \in IdArgs : Output(n)
    \/ FilterBeforeMapPass

SpecProbes == InitProbes /\ [][NextProbes]_vars

(***************************************************************************)
(* A profiler that is asked for cost estimates while measurements at sizes *)
(* on both sides of the bucket boundaries, and at size 0, are recorded.    *)
(***************************************************************************)
InitCosts ==
    /\ EmptyGraph
    /\ lib = Library(MaxNodes, MaxOutputs, {}, {}, FALSE)
             @@ Measurements(CostRecords, MaxSamples, {"map"}, {0, 7, 95, 100, 105, 2100},
                             {100, 500})

NextCosts ==
    \/ \E intent_type \in lib.intents, i \in 1..Len(Strategies), input_size \in lib.sizes,
          execution_time_ms \in lib.times :
          RecordExecution(intent_type, Strategies[i], input_size, execution_time_ms)
    \/ \E intent_type \in lib.intents, i \in 1..Len(Strategies), input_size \in lib.sizes :
          GetCostEstimate(intent_type, Strategies[i], input_size)

SpecCosts == InitCosts /\ [][NextCosts]_vars

(***************************************************************************)
(* Graphs whose identifiers are drawn in any order: uuid4 gives no order   *)
(* between the identifier of a node and those of the nodes made before it. *)
(***************************************************************************)
InitIds ==
    /\ EmptyGraph
    /\ \E ids \in Permutations(1..IdNodes) :
           lib = [Library(IdNodes, MaxOutputs, {"inc"}, {}, FALSE) EXCEPT !.ids = ids]

NextIds ==
    \/ Input
    \/ \E v \in ConstVals : Constant(v)
    \/ \E i \in IdArgs, t \in lib.transforms : Map(i, t)
    \/ \E n \in IdArgs : Output(n)
    \/ CSE

SpecIds == InitIds /\ [][NextIds]_vars

(***************************************************************************)
(* Properties.                                                             *)
(***************************************************************************)
\* the graph a step leaves behind
Gnext == [nodes |-> nodes', order |-> order', outputs |-> outputs', err |-> err',
          applied |-> applied']

\* the step is a run of Graph.optimize that returned
Ran(op) == last' = op /\ err' = "none"

SamePlanResults(g, h) == \A xs \in PlanInputs : PlanResult(h, xs) = PlanResult(g, xs)

\* the nodes reachable from S by following inputs backwards
RECURSIVE ReachFrom(_, _)
ReachFrom(g, S) ==
    LET T == S \cup {i \in DOMAIN g.nodes :
                        \E n \in S \cap DOMAIN g.nodes : InSeq(i, g.nodes[n].inputs)}
    IN  IF T = S THEN S ELSE ReachFrom(g, T)

Reachable(g) == ReachFrom(g, {g.outputs[i] : i \in 1..Len(g.outputs)})

\* C1: optimize() with the default pipeline leaves a graph whose plan returns, on
\* every input on which the plan of the graph before it returns, the same output
\* value(s).
C1_OptimizePreservesResults ==
    [][Ran("optimize") =>
          \A xs \in PlanInputs :
              PlanResult(G, xs).st = "ok" => PlanResult(Gnext, xs) = PlanResult(G, xs)]_vars

\* C2: filter_before_map alone leaves a graph whose plan returns the value of the
\* plan of the graph before it, on every input on which that plan does not fail,
\* whatever the transform and the predicate.
C2_FilterBeforeMapPreservesResults ==
    [][Ran("filter_before_map") =>
          \A xs \in PlanInputs :
              PlanResult(G, xs).st = "ok" =>
                  /\ PlanResult(Gnext, xs).st = "ok"
                  /\ PlanResult(Gnext, xs).outs = PlanResult(G, xs).outs]_vars

\* C3: common_subexpression_elimination leaves a graph whose plan returns as many
\* output values, in the same order and equal, as the plan of the graph before it,
\* whichever nodes are outputs.
C3_CsePreservesResults ==
    [][Ran("common_subexpression_elimination") /\ Compiles(G) =>
          \A xs \in PlanInputs :
              /\ PlanResult(Gnext, xs).st = PlanResult(G, xs).st
              /\ PlanResult(Gnext, xs).single = PlanResult(G, xs).single
              /\ Len(PlanResult(Gnext, xs).outs) = Len(PlanResult(G, xs).outs)
              /\ PlanResult(Gnext, xs).outs = PlanResult(G, xs).outs]_vars

\* the node a chain of nodes of one kind starts from, and the callables along it
RECURSIVE ChainSource(_, _, _)
ChainSource(g, kind, n) ==
    IF g.nodes[n].kind = kind /\ Len(g.nodes[n].inputs) > 0
    THEN ChainSource(g, kind, g.nodes[n].inputs[1])
    ELSE n

RECURSIVE ChainCallables(_, _, _)
ChainCallables(g, kind, n) ==
    IF g.nodes[n].kind = kind /\ Len(g.nodes[n].inputs) > 0
    THEN ChainCallables(g, kind, g.nodes[n].inputs[1]) \o g.nodes[n].fn
    ELSE <<>>

\* a node of the kind whose sole input is a node of the same kind
Stacked(g, kind, n) ==
    /\ g.nodes[n].kind = kind
    /\ Len(g.nodes[n].inputs) = 1
    /\ g.nodes[g.nodes[n].inputs[1]].kind = kind

\* C4: after filter_fusion every Filter whose sole input was a Filter calls the
\* predicates of its chain inner first, each only on what the ones before it
\* accepted, and reads what the innermost Filter read; and the plan returns on
\* every input what it returned before, also when an inner Filter has other
\* consumers.
C4_FilterFusionFusesEveryPair ==
    [][Ran("filter_fusion") =>
          /\ \A n \in DOMAIN nodes \cap DOMAIN nodes' :
                 Stacked(G, "filter", n) =>
                     /\ nodes'[n].fn = ChainCallables(G, "filter", n)
                     /\ nodes'[n].inputs = <<ChainSource(G, "filter", n)>>
          /\ Compiles(G) => SamePlanResults(G, Gnext)]_vars

\* C5: after map_fusion every Map whose sole input was a Map applies the
\* transforms of its chain inner first and reads what the innermost Map read; the
\* plan returns on every input what it returned before; and a graph in which a
\* Map read a Map has fewer nodes afterwards.
C5_MapFusionFusesEveryPair ==
    [][Ran("map_fusion") =>
          /\ \A n \in DOMAIN nodes \cap DOMAIN nodes' :
                 Stacked(G, "map", n) =>
                     /\ nodes'[n].fn = ChainCallables(G, "map", n)
                     /\ nodes'[n].inputs = <<ChainSource(G, "map", n)>>
          /\ Compiles(G) => SamePlanResults(G, Gnext)
          /\ (\E n \in Reachable(G) : Stacked(G, "map", n)) =>
                 Cardinality(DOMAIN nodes') < Cardinality(DOMAIN nodes)]_vars

\* listed as an input by more than one node, or by one node and also an output
MultipleConsumers(m) ==
    LET readers == {n \in DOMAIN nodes : InSeq(m, nodes[n].inputs)}
    IN  \/ Cardinality(readers) > 1
        \/ Cardinality(readers) = 1 /\ InSeq(m, outputs)

ReadsOnly(f, m) == nodes[f].kind = "filter" /\ nodes[f].inputs = <<m>>

\* C6 as stated: filter_before_map leaves the inputs of a Map with more than one
\* consumer, and of every Filter reading it, unchanged.
C6_MultiConsumerMapInputsUnchanged ==
    [][Ran("filter_before_map") =>
          \A m \in DOMAIN nodes :
              nodes[m].kind = "map" /\ MultipleConsumers(m) =>
                  /\ nodes'[m].inputs = nodes[m].inputs
                  /\ \A f \in DOMAIN nodes : ReadsOnly(f, m) => nodes'[f].inputs = nodes[f].inputs]_vars

\* C6 amended: filter_before_map never swaps a Map with more than one consumer
\* with a Filter reading it: every such Filter still reads the Map, and an input
\* of the Map changes only from a Filter that was swapped upstream to the Map
\* that Filter was swapped with.
C6_MultiConsumerMapNotSwapped ==
    [][Ran("filter_before_map") =>
          \A m \in DOMAIN nodes :
              nodes[m].kind = "map" /\ MultipleConsumers(m) =>
                  /\ m \in DOMAIN nodes'
                  /\ \A f \in DOMAIN nodes : ReadsOnly(f, m) => nodes'[f].inputs = <<m>>
                  /\ Len(nodes'[m].inputs) = Len(nodes[m].inputs)
                  /\ \A i \in 1..Len(nodes[m].inputs) :
                         LET a == nodes[m].inputs[i]
                             b == nodes'[m].inputs[i]
                         IN  \/ b = a
                             \/ /\ nodes[a].kind = "filter"
                                /\ nodes[b].kind = "map"
                                /\ nodes[a].inputs = <<b>>
                                /\ nodes'[b].inputs = <<a>>]_vars

\* after a pass that swapped one pair: a Map with more than one consumer and a
\* Filter reading it, the Map now reading the Map of the pair swapped upstream
C6_Witness ==
    /\ last = "filter_before_map"
    /\ applied = <<Applied("filter_before_map", 1)>>
    /\ \E m, f, u, h \in DOMAIN nodes :
           /\ nodes[m].kind = "map" /\ MultipleConsumers(m) /\ ReadsOnly(f, m)
           /\ nodes[u].kind = "map" /\ nodes[m].inputs = <<u>>
           /\ nodes[h].kind = "filter" /\ nodes[u].inputs = <<h>>

\* the callable parameters of a and b are one function object: a library function
\* both name; a closure made by a fusion belongs to one node
SameFunctionObject(a, b) ==
    /\ Len(nodes[a].fn) = Len(nodes[b].fn)
    /\ Len(nodes[a].fn) <= 1
    /\ nodes[a].fn = nodes[b].fn

\* what the claim lets CSE merge
Mergeable(a, b) ==
    /\ nodes[a].kind = nodes[b].kind
    /\ nodes[a].inputs = nodes[b].inputs
    /\ IF nodes[a].kind = "constant"
       THEN nodes[a].val = nodes[b].val
       ELSE /\ SameFunctionObject(a, b)
            /\ nodes[a].val = nodes[b].val
            /\ nodes[a].name = nodes[b].name

OutputSet(outs) == {outs[i] : i \in 1..Len(outs)}

\* C7 as stated, for nodes that reach an output: two nodes whose callables are
\* distinct function objects are both in the graph after CSE, each with the
\* inputs and the consumers it had.
C7_DistinctCallablesKeepInputs ==
    [][Ran("common_subexpression_elimination") =>
          \A a, b \in Reachable(G) :
              (a # b /\ Len(nodes[a].fn) > 0 /\ Len(nodes[b].fn) > 0 /\ ~SameFunctionObject(a, b)) =>
                  /\ a \in DOMAIN nodes'
                  /\ nodes'[a].inputs = nodes[a].inputs
                  /\ \A c \in DOMAIN nodes :
                         InSeq(a, nodes[c].inputs) => c \in DOMAIN nodes' /\ InSeq(a, nodes'[c].inputs)]_vars

\* C7 amended: CSE replaces a node, in an inputs list or in the outputs, only by
\* a node of the same kind with the same inputs and, unless both are Constants of
\* equal value, the same function object and equal other parameters; a node that
\* reaches an output leaves the graph only when such a node stays; and a node
\* that stays keeps its kind and parameters.
C7_CseMergesOnlyIdentical ==
    [][Ran("common_subexpression_elimination") =>
          /\ \A n \in DOMAIN nodes' :
                 /\ n \in DOMAIN nodes
                 /\ nodes'[n].kind = nodes[n].kind
                 /\ nodes'[n].fn = nodes[n].fn
                 /\ nodes'[n].val = nodes[n].val
                 /\ nodes'[n].name = nodes[n].name
                 /\ Len(nodes'[n].inputs) = Len(nodes[n].inputs)
                 /\ \A i \in 1..Len(nodes[n].inputs) :
                        \/ nodes'[n].inputs[i] = nodes[n].inputs[i]
                        \/ Mergeable(nodes[n].inputs[i], nodes'[n].inputs[i])
          /\ \A a \in Reachable(G) \ DOMAIN nodes' : \E c \in DOMAIN nodes' : Mergeable(a, c)
          /\ \A o \in OutputSet(outputs) :
                 o \in OutputSet(outputs') \/ \E c \in OutputSet(outputs') : Mergeable(o, c)
          /\ \A c \in OutputSet(outputs') :
                 c \in OutputSet(outputs) \/ \E o \in OutputSet(outputs) : Mergeable(o, c)]_vars

\* after a CSE that merged a pair: two Filters on one input with different
\* predicates, both outputs still
C7_Witness ==
    /\ last = "common_subexpression_elimination"
    /\ applied # <<>>
    /\ \E a, b \in OutputSet(outputs) :
           /\ a # b
           /\ nodes[a].kind = "filter" /\ nodes[b].kind = "filter"
           /\ nodes[a].inputs = nodes[b].inputs
           /\ nodes[a].fn # nodes[b].fn

\* C8: after dead_code_elimination the node mapping is exactly the set of nodes
\* reachable from the outputs by following inputs backwards; the surviving nodes
\* and the outputs list are unchanged.
C8_DceKeepsExactlyReachable ==
    [][Ran("dead_code_elimination") =>
          /\ DOMAIN nodes' = Reachable(G)
          /\ Reachable(Gnext) = DOMAIN nodes'
          /\ \A n \in DOMAIN nodes' : nodes'[n] = nodes[n]
          /\ outputs' = outputs]_vars

\* a dead_code_elimination that removed one node of three
C8_Witness ==
    /\ last = "dead_code_elimination"
    /\ applied = <<Applied("dead_code_elimination", 1)>>
    /\ Cardinality(DOMAIN nodes) = 2
    /\ Len(outputs) > 0

\* C9: after any sequence of builder calls, also with identifiers that name no
\* node, every input identifier a node lists is in the node mapping.
C9_EveryInputExists ==
    \A n \in DOMAIN nodes : \A i \in 1..Len(nodes[n].inputs) : nodes[n].inputs[i] \in DOMAIN nodes

\* C10: no node is reachable from itself by following inputs.
C10_Acyclic ==
    \A n \in DOMAIN nodes : n \notin ReachFrom(G, OutputSet(nodes[n].inputs))

\* after a filter_before_map that swapped two pairs: a Map reads a Filter created
\* after it, which reads a Map that reads a Filter created after it
C10_Witness ==
    /\ last = "filter_before_map"
    /\ applied = <<Applied("filter_before_map", 2)>>
    /\ \E m1, f1, m2, f2 \in DOMAIN nodes :
           /\ nodes[m2].kind = "map" /\ nodes[m2].inputs = <<f2>> /\ ReadsOnly(f2, m1)
           /\ nodes[m1].kind = "map" /\ nodes[m1].inputs = <<f1>> /\ nodes[f1].kind = "filter"

(***************************************************************************)
(* C11: a graph containing an Assert node compiles (and its plan then      *)
(* evaluates the predicate on the Assert's input).  Stated for the graphs  *)
(* with one Input whose execution order holds an assert node: the compile  *)
(* that was just called returned a plan.                                   *)
(***************************************************************************)
HasAssert(g) ==
    LET eo == GetExecutionOrder(g)
    IN  eo.ok /\ \E i \in 1..Len(eo.order) : g.nodes[eo.order[i]].kind = "assert"

C11_AssertGraphCompiles ==
    (last = "compile" /\ HasAssert(G) /\ Cardinality(InputNodes(G)) = 1) => err = "none"

(***************************************************************************)
(* C12: the actions of NaiveStrategy and OptimizedStrategy compute equal   *)
(* results, so the plans compiled from one graph in the modes speed,       *)
(* memory and balanced behave alike on every input: the same values, or    *)
(* the same failure.                                                       *)
(***************************************************************************)
PlanIn(optimize_for) == SolverKernelCompile(G, profiler.profiles, optimize_for)

\* the behaviour of the plan of each mode on each input, when every mode compiles
PlanTable ==
    [optimize_for \in Modes |-> [xs \in PlanInputs |-> RunPlan(PlanIn(optimize_for).plan, G, xs)]]

C12_ModesAgree ==
    (\A optimize_for \in Modes : PlanIn(optimize_for).err = "none") =>
        LET table == PlanTable
        IN  \A a, b \in Modes : table[a] = table[b]

\* the same, for the inputs on which a plan returns
C12_ModesAgreeOnValues ==
    (\A optimize_for \in Modes : PlanIn(optimize_for).err = "none") =>
        LET table == PlanTable
        IN  \A a, b \in Modes : \A xs \in PlanInputs :
                table[a][xs].st = "ok" => table[b][xs] = table[a][xs]

(***************************************************************************)
(* C13: the default pipeline is idempotent: after optimize() returned, a   *)
(* second optimize() leaves the node set, every node's inputs and the      *)
(* outputs as they are.                                                    *)
(***************************************************************************)
SameShape(g, h) ==
    /\ DOMAIN h.nodes = DOMAIN g.nodes
    /\ \A n \in DOMAIN g.nodes : h.nodes[n].inputs = g.nodes[n].inputs
    /\ h.outputs = g.outputs

C13_PipelineIdempotent ==
    [][Ran("optimize") => SameShape(Gnext, optimize(Gnext, PassNames, 1))]_vars

(***************************************************************************)
(* C14: each pass is idempotent: after the pass returned, running the same *)
(* pass again leaves the node set, every node's inputs and the outputs as  *)
(* they are.                                                               *)
(***************************************************************************)
C14_EachPassIdempotent ==
    [][\A i \in 1..Len(PassNames) :
          Ran(PassNames[i]) => SameShape(Gnext, RunPass(Gnext, PassNames[i]))]_vars

(***************************************************************************)
(* C15: every pass is total on well-formed graphs: a run of a pass, or of  *)
(* the default pipeline, on a graph whose inputs all name nodes returns;   *)
(* a failure of a user callable during the probes of filter_before_map     *)
(* does not escape.                                                        *)
(***************************************************************************)
PassOps == {PassNames[i] : i \in 1..Len(PassNames)} \cup {"optimize"}

C15_PassesNeverFail == last \in PassOps => err = "none"

(***************************************************************************)
(* C16: a pass, or the default pipeline, invoked on a graph in which some  *)
(* node lists an input that is not in the node mapping fails with          *)
(* InvalidReference (KeyError); it neither skips the node nor returns.     *)
(***************************************************************************)
Corrupted(g) ==
    \E n \in DOMAIN g.nodes : \E i \in 1..Len(g.nodes[n].inputs) :
        g.nodes[n].inputs[i] \notin DOMAIN g.nodes

C16_PassesRejectDangling ==
    [][(last' \in PassOps /\ Corrupted(G)) => err' = "KeyError"]_vars

Positions(seq, n) == {i \in 1..Len(seq) : seq[i] = n}

C18_ExecutionOrder ==
    LET eo == GetExecutionOrder(G)
    IN  /\ eo.ok
        /\ \A n \in DOMAIN nodes :
               Cardinality(Positions(eo.order, n)) = (IF n \in Reachable(G) THEN 1 ELSE 0)
        /\ \A i \in 1..Len(eo.order) :
               /\ eo.order[i] \in DOMAIN nodes
               /\ \A k \in 1..Len(nodes[eo.order[i]].inputs) :
                      \E j \in 1..(i - 1) : eo.order[j] = nodes[eo.order[i]].inputs[k]
        /\ \A optimize_for \in Modes :
               PlanIn(optimize_for).err = "none" =>
                   /\ PlanIn(optimize_for).plan.order = eo.order
                   /\ DOMAIN PlanIn(optimize_for).plan.strategy = Reachable(G)

\* a compile that returned a plan for a graph with two outputs that share an
\* ancestor and with a node that reaches no output
C18_Witness ==
    /\ last = "compile" /\ err = "none" /\ plan.made
    /\ plan.order = GetExecutionOrder(G).order
    /\ Len(outputs) = 2 /\ outputs[1] # outputs[2]
    /\ Len(plan.order) = 3
    /\ DOMAIN nodes \ Reachable(G) # {}

(***************************************************************************)
(* C19: saving the store and constructing a profiler on the file that      *)
(* save_profiles wrote yields the same store: the same keys in the same    *)
(* order and, for each key, the same smoothed time and sample count.       *)
(***************************************************************************)
C19_SaveLoadRoundTrip ==
    [][(last = "save_profiles" /\ last' = "PerformanceProfiler") =>
          err' = "none" /\ profiler'.profiles = profiler.profiles]_vars

\* a profiler constructed on the file a save of two records, one of them updated,
\* has written
C19_Witness ==
    /\ last = "PerformanceProfiler" /\ err = "none"
    /\ file = dump(profiler.profiles)
    /\ Len(profiler.profiles) = 2
    /\ \E i \in 1..2 : profiler.profiles[i].sample_count = 2
                         /\ profiler.profiles[i].execution_time_ms \notin lib.times

(***************************************************************************)
(* C20: constructing a profiler never fails because of the file, and when  *)
(* the file is missing, empty or malformed (not JSON, not a list, a list   *)
(* with an entry that is not a complete record) the store is empty.        *)
(***************************************************************************)
CompleteRecord(j) ==
    /\ j.t = "object"
    /\ DOMAIN j.fields \subseteq FieldNames
    /\ FieldNames \ {"sample_count"} \subseteq DOMAIN j.fields

WellFormedFile(f) ==
    /\ f.kind = "json"
    /\ f.value.t = "list"
    /\ \A i \in 1..Len(f.value.items) : CompleteRecord(f.value.items[i])

C20_ConstructorNeverFails ==
    last = "PerformanceProfiler" =>
        /\ err = "none"
        /\ ~WellFormedFile(file) => profiler.profiles = <<>>

(***************************************************************************)
(* C21: writes to the shared profiler are serialized: when the threads     *)
(* that called record_execution have all returned, no update is lost:      *)
(* every key that was recorded has a record, and the sample count of each  *)
(* record is the number of record_execution calls made for its key.        *)
(***************************************************************************)
C21_NoUpdateLost ==
    (\A t \in 1..ThreadCount : threads.at[t].pc = "idle") =>
        /\ \A key \in DOMAIN threads.calls : Position(profiler.profiles, key) # 0
        /\ \A i \in 1..Len(profiler.profiles) :
               /\ Key(profiler.profiles[i]) \in DOMAIN threads.calls
               /\ profiler.profiles[i].sample_count = threads.calls[Key(profiler.profiles[i])]

(***************************************************************************)
(* C22: strategy selection is deterministic: a selection depends on the    *)
(* graph, the mode, the size hints and the contents of the profiler store  *)
(* alone.  The strategies a compile of the held kernel has just chosen are *)
(* the ones a kernel without history, given the same hints, chooses on the *)
(* same graph, mode and store.                                             *)
(***************************************************************************)
C22_SelectionDeterministic ==
    (last = "SolverKernel.compile" /\ err = "none") =>
        solver.chosen = SelectAlong(G, [NoKernel EXCEPT !.hints = solver.hints],
                                    profiler.profiles, solver.optimize_for,
                                    GetExecutionOrder(G).order, 1, <<>>).strategy

(***************************************************************************)
(* C23: in mode memory every node whose kind NaiveStrategy can handle      *)
(* (filter, map, reduce, input, constant) is assigned NaiveStrategy; the   *)
(* first capable strategy is only the fallback for the other kinds.        *)
(***************************************************************************)
C23_MemoryPrefersNaive ==
    (last = "SolverKernel.compile" /\ err = "none" /\ solver.optimize_for = "memory") =>
        \A n \in DOMAIN solver.chosen :
            can_handle("NaiveStrategy", nodes[n].kind) => solver.chosen[n] = "NaiveStrategy"

Accepted(transform, predicate) ==
    {c \in 1..Len(TestCases) :
        \A i \in 1..Len(TestCases[c]) :
            LET y == CallTransform(transform, TestCases[c][i])
            IN  y.ok /\ CallPredicate(predicate, y.v).ok}

Commute(transform, predicate, seq) ==
    LET f(x) == CallTransform(transform, x).v
        p(x) == CallPredicate(predicate, x).v # 0
        filtered == SelectSeq(seq, p)
    IN  SelectSeq([i \in 1..Len(seq) |-> f(seq[i])], p)
            = [i \in 1..Len(filtered) |-> f(filtered[i])]

Independent(transform, predicate) ==
    \A c \in Accepted(transform, predicate) :
        /\ \A i \in 1..Len(TestCases[c]) : CallPredicate(predicate, TestCases[c][i]).ok
        /\ Commute(transform, predicate, TestCases[c])

C25_SwapsExactlyIndependentPairs ==
    [][Ran("filter_before_map") =>
          \A f \in DOMAIN nodes :
              (/\ \A n \in DOMAIN nodes : nodes[n].kind = "filter" <=> n = f
               /\ nodes[nodes[f].inputs[1]].kind = "map"
               /\ CountConsumers(G, nodes[f].inputs[1]) = 1) =>
                  LET m == nodes[f].inputs[1]
                  IN  IF Independent(nodes[m].fn, nodes[f].fn)
                      THEN nodes'[f].inputs = nodes[m].inputs /\ nodes'[m].inputs = <<f>>
                      ELSE nodes'[f].inputs = <<m>> /\ nodes'[m].inputs = nodes[m].inputs
      ]_vars

\* the pass has put the filter len(x) > 3 in front of the map x.upper()
C25_Witness ==
    /\ last = "filter_before_map" /\ err = "none" /\ Len(applied) = 1
    /\ \E f, m \in DOMAIN nodes :
           /\ nodes[f].kind = "filter" /\ nodes[f].fn = <<"len3">>
           /\ nodes[m].kind = "map" /\ nodes[m].fn = <<"upper">>
           /\ nodes[m].inputs = <<f>>
           /\ nodes[nodes[f].inputs[1]].kind = "input"

(***************************************************************************)
(* C26: type preservation is an invariant of every reachable graph: the    *)
(* declared output type of every Filter, Sort, Distinct and Assert node is *)
(* the declared output type of the node that is its input now, also after  *)
(* passes that rewrite inputs.                                             *)
(***************************************************************************)
C26_TypePreserved ==
    \A n \in DOMAIN nodes :
        (/\ nodes[n].kind \in {"filter", "sort", "distinct", "assert"}
         /\ nodes[n].inputs[1] \in DOMAIN nodes) =>
            nodes[n].otype = nodes[nodes[n].inputs[1]].otype

(***************************************************************************)
(* C27: the bucket of a size n >= 0 is n below 10, 10 * floor(n / 10)      *)
(* below 100, 100 * floor(n / 100) below 1000 and 1000 * floor(n / 1000)   *)
(* from there on; record_execution files a measurement under the bucket of *)
(* its size and leaves the other records alone, and get_cost_estimate      *)
(* finds the record under the bucket of the size it is asked for.          *)
(***************************************************************************)
Floor(n, unit) == CHOOSE q \in 0..n : q * unit <= n /\ n < (q + 1) * unit

Bucket(n) ==
    CASE n < 10 -> n
      [] 10 <= n /\ n < 100 -> 10 * Floor(n, 10)
      [] 100 <= n /\ n < 1000 -> 100 * Floor(n, 100)
      [] OTHER -> 1000 * Floor(n, 1000)

C28_EstimateIsTotal == last = "get_cost_estimate" => err = "none"

(***************************************************************************)
(* C29: the size estimate of a node follows the ratio of its kind applied  *)
(* to the estimate of its input(s): an Input is 1000, a Filter half, a Map *)
(* equal, a Flatten double, a Distinct half, a GroupBy min(n / 10, 100), a *)
(* Sort and an Assert equal to their input's estimate, a Join the product  *)
(* of the estimates of its two inputs; a size hint set on a node is the    *)
(* estimate of that node.  Stated for the nodes whose ancestors all exist, *)
(* without hints and with one hint of 5.                                   *)
(***************************************************************************)
C29_SizeEstimates ==
    \A hints \in {<<>>} \cup {h :> 5 : h \in DOMAIN nodes} :
        \A n \in DOMAIN nodes :
            (\A a \in ReachFrom(G, {n}) :
                 \A i \in 1..Len(nodes[a].inputs) : nodes[a].inputs[i] \in DOMAIN nodes) =>
                LET e(x) == estimate_input_size(G, hints, x)
                    in(i) == e(nodes[n].inputs[i])
                    kind == nodes[n].kind
                IN  IF n \in DOMAIN hints THEN e(n) = hints[n]
                    ELSE CASE kind = "input" -> e(n) = 1000
                           [] kind = "filter" -> 2 * e(n) \in {in(1), in(1) - 1}
                           [] kind = "map" -> e(n) = in(1)
                           [] kind = "flatten" -> e(n) = 2 * in(1)
                           [] kind = "distinct" -> 2 * e(n) \in {in(1), in(1) - 1}
                           [] kind = "group_by" ->
                                 /\ e(n) <= 100
                                 /\ 10 * e(n) <= in(1)
                                 /\ e(n) = 100 \/ in(1) < 10 * (e(n) + 1)
                           [] kind \in {"sort", "assert"} -> e(n) = in(1)
                           [] kind = "join" -> e(n) = in(1) * in(2)
                           [] OTHER -> TRUE

(***************************************************************************)
(* C30: for each class of equivalent nodes that CSE finds, the canonical   *)
(* node is the member with the lexicographically first identifier; every   *)
(* inputs list and the outputs name the canonical node where they named    *)
(* another member, and the other members are gone after the pass.          *)
(* Identifiers of one kind are ordered as the numbers that stand for them. *)
(***************************************************************************)
C30_CanonicalIsFirstIdentifier ==
    [][Ran("common_subexpression_elimination") =>
          LET n2c == NodeToCanonical(G)
          IN  \A n \in DOMAIN n2c :
                  /\ n2c[n] < n
                  /\ n \notin DOMAIN nodes'
                  /\ ~InSeq(n, outputs')
                  /\ InSeq(n, outputs) => InSeq(n2c[n], outputs')
                  /\ \A c \in DOMAIN nodes' :
                         \A k \in 1..Len(nodes[c].inputs) :
                             nodes[c].inputs[k] = n => nodes'[c].inputs[k] = n2c[n]]_vars

====
